---- MODULE Spec2Model ----
(***************************************************************************)
(* Convention-based route discovery of the enterprise API framework:       *)
(* plugins/route-loader.ts (loadRoutesFromDirectory, determineRoutePath,   *)
(* loadRoutes), app.ts (buildApp) and server.ts (start).                   *)
(*                                                                         *)
(* Strings are sequences of one-character strings, so that split, join,    *)
(* startsWith, endsWith, slice and the two regular expressions of          *)
(* determineRoutePath are computed character by character.                 *)
(***************************************************************************)
EXTENDS Integers, Sequences, FiniteSets, TLC

VARIABLES
    fs,         \* the route tree on disk: which entries exist and how they behave
    cfg,        \* the loaded configuration (api.basePath, api.version) and its validity
    pc,         \* position of start() / buildApp() / loadRoutes()
    stack,      \* call stack of loadRoutesFromDirectory, innermost frame last
    registry,   \* the dispatch table: set of bound (method, url) handlers
    regCalls,   \* files handed to fastify.register, with the prefix, in call order
    logs,       \* records written to fastify.log, in order
    orders,     \* what readdir returned for each directory in this run
    walkResult, \* how the root call of loadRoutesFromDirectory settled
    listenCalled, \* TRUE once start() has called app.listen
    exitCode,   \* argument of process.exit, -1 while the process runs
    run,        \* number of the current start of the process
    prevRegs,   \* registrations of the previous start
    prevOrders,   \* orders of the previous start
    tpath,      \* determineRoutePath under test: the file path
    tresult,    \* determineRoutePath under test: the returned route path
    ctxHooks,   \* the hooks held by each encapsulation context of the server
    requests,   \* the requests the server has received, each with its own object
    uuids,      \* number of values randomUUID has returned
    reqLogs,    \* records written to the log while requests are served, in order
    env,        \* process.env: the value of each variable, or Unset
    cachedConfig, \* the module variable cachedConfig of lib/config.ts
    lastLoad,   \* how the latest call of loadConfig ended
    loadCalls,  \* number of calls of loadConfig
    envChanges, \* number of changes of the environment
    plugins,    \* the optional plugins buildApp has registered
    cliPc,      \* position of createProject
    cliStep,    \* position in the steps of createProjectStructure
    answer,     \* how the overwrite prompt was answered
    initialTarget, \* the project directory as createProject found it
    target,     \* the project directory on disk
    fsOps       \* the file-system operations createProject has performed, in order

httpVars == <<ctxHooks, requests, uuids, reqLogs>>

cfgVars == <<env, cachedConfig, lastLoad, loadCalls, envChanges, plugins>>

cliVars == <<cliPc, cliStep, answer, initialTarget, target, fsOps>>

vars == <<fs, cfg, pc, stack, registry, regCalls, logs, orders, walkResult,
          listenCalled, exitCode,
          run, prevRegs, prevOrders, tpath, tresult, ctxHooks, requests, uuids,
          reqLogs,
          env, cachedConfig, lastLoad, loadCalls, envChanges, plugins,
          cliPc, cliStep, answer, initialTarget, target, fsOps>>

----------------------------------------------------------------------------
(* Strings *)

SLASH == "/"

S_routes == <<"r", "o", "u", "t", "e", "s">>
S_src    == <<"s", "r", "c">>
S_index  == <<"i", "n", "d", "e", "x">>
S_users  == <<"u", "s", "e", "r", "s">>
S_ts     == <<".", "t", "s">>
S_js     == <<".", "j", "s">>
S_md     == <<".", "m", "d">>
S_v1     == <<"v", "1">>
S_v2     == <<"v", "2">>
S_api    == <<"/", "a", "p", "i">>

Digits == {"0", "1", "2", "3", "4", "5", "6", "7", "8", "9"}

\* byte value of the characters that occur in entry names
CharCode(c) ==
    CASE c = "." -> 46 [] c = "/" -> 47
      [] c = "0" -> 48 [] c = "1" -> 49 [] c = "2" -> 50 [] c = "3" -> 51
      [] c = "[" -> 91 [] c = "]" -> 93
      [] c = "a" -> 97 [] c = "b" -> 98 [] c = "d" -> 100 [] c = "e" -> 101
      [] c = "i" -> 105 [] c = "j" -> 106 [] c = "m" -> 109 [] c = "n" -> 110
      [] c = "o" -> 111 [] c = "r" -> 114 [] c = "s" -> 115 [] c = "t" -> 116
      [] c = "u" -> 117 [] c = "v" -> 118 [] c = "w" -> 119 [] c = "x" -> 120
      [] c = "y" -> 121
      [] OTHER -> 255

StartsWith(s, p) == Len(s) >= Len(p) /\ SubSeq(s, 1, Len(p)) = p

EndsWith(s, p) == Len(s) >= Len(p) /\ SubSeq(s, Len(s) - Len(p) + 1, Len(s)) = p

\* String.prototype.split(sep) for a one-character separator
RECURSIVE SplitFrom(_, _, _, _)
SplitFrom(s, sep, i, cur) ==
    IF i > Len(s) THEN <<cur>>
    ELSE IF s[i] = sep THEN <<cur>> \o SplitFrom(s, sep, i + 1, <<>>)
    ELSE SplitFrom(s, sep, i + 1, Append(cur, s[i]))

Split(s, sep) == SplitFrom(s, sep, 1, <<>>)

\* Array.prototype.join(sep)
RECURSIVE JoinWith(_, _)
JoinWith(parts, sep) ==
    IF Len(parts) = 0 THEN <<>>
    ELSE IF Len(parts) = 1 THEN parts[1]
    ELSE parts[1] \o <<sep>> \o JoinWith(Tail(parts), sep)

\* path.join(dir, name) for a name without separators; join('', name) is name
PathJoin(dir, name) == IF dir = <<>> THEN name ELSE dir \o <<SLASH>> \o name

\* path.extname(name): from the last dot, '' when there is none or it leads the name
extname(name) ==
    LET dots == {i \in 1..Len(name) : name[i] = "."}
    IN  IF dots = {} THEN <<>>
        ELSE LET d == CHOOSE i \in dots : \A j \in dots : j <= i
             IN  IF d = 1 THEN <<>> ELSE SubSeq(name, d, Len(name))

----------------------------------------------------------------------------
(* determineRoutePath *)

\* positions e where a match of /\/routes\/v\d+\// ends
RoutesMatchEnds(s) ==
    LET pat == <<SLASH>> \o S_routes \o <<SLASH, "v">>
    IN  {e \in 1..Len(s) :
            /\ s[e] = SLASH
            /\ \E i \in 1..Len(s) :
                  /\ i + Len(pat) < e
                  /\ SubSeq(s, i, i + Len(pat) - 1) = pat
                  /\ \A k \in (i + Len(pat))..(e - 1) : s[k] \in Digits}

\* variant: the prefix is cut at the first match
StripVersionPrefix_First(s) ==
    LET ends == RoutesMatchEnds(s)
    IN  IF ends = {} THEN s
        ELSE LET e == CHOOSE x \in ends : \A y \in ends : x <= y
             IN  SubSeq(s, e + 1, Len(s))

\* filePath.replace(/.*\/routes\/v\d+\//, ''): the greedy .* takes the last match
StripVersionPrefix(s) ==
    LET ends == RoutesMatchEnds(s)
    IN  IF ends = {} THEN s
        ELSE LET e == CHOOSE x \in ends : \A y \in ends : y <= x
             IN  SubSeq(s, e + 1, Len(s))

\* .replace(/\.(ts|js)$/, '')
StripExtension(s) ==
    IF EndsWith(s, S_ts) \/ EndsWith(s, S_js) THEN SubSeq(s, 1, Len(s) - 3) ELSE s

\* the callback of .map(): [id] -> :id, index -> ''
MapSegment(segment) ==
    IF StartsWith(segment, <<"[">>) /\ EndsWith(segment, <<"]">>)
    THEN <<":">> \o SubSeq(segment, 2, Len(segment) - 1)
    ELSE IF segment = S_index THEN <<>>
    ELSE segment

RECURSIVE MapSegments(_)
MapSegments(segs) ==
    IF Len(segs) = 0 THEN <<>> ELSE <<MapSegment(Head(segs))>> \o MapSegments(Tail(segs))

NonEmpty(s) == s # <<>>

determineRoutePath(filePath, basePath) ==
    LET relativePath == StripExtension(StripVersionPrefix(filePath))
        joined == JoinWith(SelectSeq(MapSegments(Split(relativePath, SLASH)), NonEmpty), SLASH)
    IN  IF StartsWith(joined, <<SLASH>>) THEN joined ELSE <<SLASH>> \o joined

----------------------------------------------------------------------------
(* The route tree <cwd>/src/routes and the modules in it *)

MaxFiles == 3      \* entries of the tree that are not directories
MaxDeviant == 1    \* entries that are not a plain directory or a plain GET plugin

Root == 0
NodeIds == 1..8

\* absolute path of process.cwd()
Cwd == <<SLASH, "w">>

Node(n) ==
    CASE n = 1 -> [parent |-> 0, name |-> S_v1, dir |-> TRUE]
      [] n = 2 -> [parent |-> 0, name |-> S_v2, dir |-> TRUE]
      [] n = 3 -> [parent |-> 1, name |-> S_users, dir |-> TRUE]
      [] n = 4 -> [parent |-> 1, name |-> S_users \o S_ts, dir |-> FALSE]
      [] n = 5 -> [parent |-> 3, name |-> S_index \o S_ts, dir |-> FALSE]
      [] n = 6 -> [parent |-> 3, name |-> <<"[", "]">> \o S_js, dir |-> FALSE]
      [] n = 7 -> [parent |-> 2, name |-> S_users \o S_ts, dir |-> FALSE]
      [] n = 8 -> [parent |-> 1, name |-> <<"n", "o", "t", "e", "s">> \o S_md, dir |-> FALSE]

DirIds == {n \in NodeIds : Node(n).dir}
FileIds == NodeIds \ DirIds

\* how an entry behaves when the loader touches it
\*   ok             a readable directory / a module whose default export is a plugin
\*                  that declares GET /list
\*   pluginPost     a plugin that declares POST /list
\*   importThrows   import() rejects
\*   noDefault      the module has no default export
\*   notFunction    the default export is not a function
\*   pluginThrows   the plugin throws before it declares a handler
\*   bindThenThrows the plugin declares GET /list and then throws
\*   statFails      stat() rejects (dangling link, entry removed after readdir)
\*   special        stat() reports neither a file nor a directory
\*   readdirFails   readdir() rejects
DirBehaviours == {"ok", "statFails", "readdirFails"}
ModuleBehaviours == {"ok", "pluginPost", "importThrows", "noDefault", "notFunction",
                     "pluginThrows", "bindThenThrows", "statFails", "special"}
OtherBehaviours == {"ok", "statFails"}

\* variant: any file that has an extension is taken
IsCandidateName_AnyExtension(name) == extname(name) # <<>>

\* extname(entry.name) === '.ts' || extname(entry.name) === '.js'
IsCandidateName(name) == extname(name) = S_ts \/ extname(name) = S_js

BehavioursOf(n) ==
    IF Node(n).dir THEN DirBehaviours
    ELSE IF IsCandidateName(Node(n).name) THEN ModuleBehaviours
    ELSE OtherBehaviours

AllBehaviours == DirBehaviours \cup ModuleBehaviours

PresentSets ==
    {P \in SUBSET NodeIds :
        /\ \A n \in P : Node(n).parent = Root \/ Node(n).parent \in P
        /\ Cardinality(P \cap FileIds) <= MaxFiles}

\* the trees the loader may find: the routes directory is missing, or it holds a
\* parent-closed set of entries of which at most MaxDeviant are not plain
Trees ==
    {[root |-> FALSE, present |-> {}, beh |-> [n \in NodeIds |-> "ok"]]}
    \cup
    UNION {UNION {{[root |-> TRUE, present |-> P,
                    beh |-> [n \in NodeIds |-> IF n \in D THEN b[n] ELSE "ok"]] :
                        b \in {c \in [D -> AllBehaviours] :
                                  \A n \in D : c[n] \in BehavioursOf(n) \ {"ok"}}} :
                  D \in {E \in SUBSET P : Cardinality(E) <= MaxDeviant}} :
           P \in PresentSets}

RoutesDir == Cwd \o <<SLASH>> \o S_src \o <<SLASH>> \o S_routes

\* fullPath = join(dirPath, entry.name), from the routes directory down
RECURSIVE FullPath(_)
FullPath(n) == IF n = Root THEN RoutesDir ELSE PathJoin(FullPath(Node(n).parent), Node(n).name)

\* basePath = join(basePath, entry.name), '' at the routes directory
RECURSIVE BasePath(_)
BasePath(n) == IF n = Root THEN <<>> ELSE PathJoin(BasePath(Node(n).parent), Node(n).name)

Children(d) == {n \in fs.present : Node(n).parent = d}

Perms(S) ==
    {p \in [1..Cardinality(S) -> S] : \A i, j \in 1..Cardinality(S) : p[i] = p[j] => i = j}

----------------------------------------------------------------------------
(* Configuration and the dispatch table *)

\* API_VERSION values of the environment; 'v1' is the schema default
ApiVersions == {S_v1}

\* what loadConfig yields: a parsed configuration, or a validation failure
Configs == {[valid |-> ok, basePath |-> S_api, version |-> v] : ok \in BOOLEAN, v \in ApiVersions}

\* prefix: `${config.api.basePath}/${config.api.version}` given to register(loadRoutes)
InstancePrefix(c) == c.basePath \o <<SLASH>> \o c.version

\* the prefix of a plugin registered with { prefix } inside an instance that has one
buildRoutePrefix(instancePrefix, pluginPrefix) ==
    IF pluginPrefix = <<>> THEN instancePrefix
    ELSE IF EndsWith(instancePrefix, <<SLASH>>) /\ pluginPrefix[1] = SLASH
         THEN instancePrefix \o Tail(pluginPrefix)
    ELSE IF pluginPrefix[1] # SLASH THEN instancePrefix \o <<SLASH>> \o pluginPrefix
    ELSE instancePrefix \o pluginPrefix

\* the url a handler declared at `path` is bound to under `prefix`
RouteUrl(prefix, path) ==
    IF path = <<SLASH>> /\ prefix # <<>> THEN prefix
    ELSE IF path # <<>> /\ path[1] = SLASH /\ EndsWith(prefix, <<SLASH>>)
         THEN prefix \o Tail(path)
    ELSE prefix \o path

S_list == <<SLASH, "l", "i", "s", "t">>
S_health == <<SLASH, "h", "e", "a", "l", "t", "h">>

\* the handlers a module's default export declares, in order
Handlers(b) ==
    CASE b = "ok" -> <<[method |-> "GET", path |-> S_list]>>
      [] b = "pluginPost" -> <<[method |-> "POST", path |-> S_list]>>
      [] b = "bindThenThrows" -> <<[method |-> "GET", path |-> S_list]>>
      [] OTHER -> <<>>

ThrowsAtEnd(b) == b \in {"pluginThrows", "bindThenThrows"}

Bound(reg, method, url) == \E r \in reg : r.method = method /\ r.url = url

\* variant: a handler declared for a taken (method, url) replaces the earlier one
RECURSIVE BindAll_Overwrites(_, _, _, _)
BindAll_Overwrites(reg, hs, prefix, f) ==
    IF Len(hs) = 0 THEN [reg |-> reg, err |-> "none"]
    ELSE LET url == RouteUrl(prefix, Head(hs).path)
             kept == {r \in reg : ~(r.method = Head(hs).method /\ r.url = url)}
         IN  BindAll_Overwrites(
                 kept \cup {[method |-> Head(hs).method, url |-> url, file |-> f]},
                 Tail(hs), prefix, f)

\* the plugin body runs: each handler is bound unless its (method, url) is taken,
\* which raises the router's duplicate-route error
RECURSIVE BindAll(_, _, _, _)
BindAll(reg, hs, prefix, f) ==
    IF Len(hs) = 0 THEN [reg |-> reg, err |-> "none"]
    ELSE LET url == RouteUrl(prefix, Head(hs).path)
         IN  IF Bound(reg, Head(hs).method, url)
             THEN [reg |-> reg, err |-> "duplicate"]
             ELSE BindAll(reg \cup {[method |-> Head(hs).method, url |-> url, file |-> f]},
                          Tail(hs), prefix, f)

\* await fastify.register(routePlugin, { prefix: routePath }) for file f
RunPlugin(reg, f, routePath) ==
    LET prefix == buildRoutePrefix(InstancePrefix(cfg), routePath)
        bound == BindAll(reg, Handlers(fs.beh[f]), prefix, f)
    IN  IF bound.err = "none" /\ ThrowsAtEnd(fs.beh[f])
        THEN [reg |-> bound.reg, err |-> "plugin"]
        ELSE bound

----------------------------------------------------------------------------
(* start(), buildApp(), loadRoutes() and loadRoutesFromDirectory() *)

\* routePath = determineRoutePath(fullPath, basePath) of every entry, with the basePath
\* its directory is walked under
RoutePathOf ==
    [n \in NodeIds |-> determineRoutePath(FullPath(n), BasePath(Node(n).parent))]

Log(level, msg, node, err) == [level |-> level, msg |-> msg, node |-> node, err |-> err]

Top == stack[Len(stack)]

Frame(d) == [dir |-> d, entries |-> <<>>, idx |-> 1, st |-> "readdir"]

\* variant: the loop runs over the entries from the last to the first
EntryAt_Reversed(f) == f.entries[Len(f.entries) + 1 - f.idx]

\* for (const entry of entries): the entry the loop is at
EntryAt(f) == f.entries[f.idx]

\* the for loop moves to the next entry
Advance(f) == [f EXCEPT !.idx = f.idx + 1, !.st = "stat"]

\* the innermost call settles; its caller resumes after the await of the recursion
Returned(stk) ==
    LET rest == SubSeq(stk, 1, Len(stk) - 1)
    IN  IF rest = <<>> THEN rest
        ELSE [rest EXCEPT ![Len(rest)] = Advance(rest[Len(rest)])]

\* variant: the per-file failure is left to the catch of the directory try
AfterFileFailure_Propagates(stk) == Returned(stk)

\* the catch of the per-file try: the loop goes on with the next entry
AfterFileFailure(stk) == [stk EXCEPT ![Len(stk)] = Advance(stk[Len(stk)])]

\* variant: the directory catch logs and rethrows, so the caller's loop ends as well
AfterDirFailure_Unwinds(stk) == Returned(Returned(stk))

\* the catch of the directory try: the call resolves
AfterDirFailure(stk) == Returned(stk)

\* the root call has settled when its frame is gone; no path of the function rejects
Settled(stk, current) == IF stk = <<>> THEN "resolved" ELSE current

\* variant: only the truthiness of the default export is tested
HasPluginExport_TruthyOnly(b) == b # "noDefault"

\* routePlugin && typeof routePlugin === 'function'
HasPluginExport(b) == b \notin {"noDefault", "notFunction"}

\* what readdir(dirPath) may return: the entries of the directory in any order
ReaddirResults(d) == Perms(Children(d))

ReaddirFails(d) == IF d = Root THEN ~fs.root ELSE fs.beh[d] = "readdirFails"

\* start() up to the registration of loadRoutes inside buildApp(): loadConfig throws on
\* an invalid configuration, which start() answers with process.exit(1)
BuildApp ==
    /\ pc = "start"
    /\ IF cfg.valid
       THEN /\ pc' = "discover"
            /\ UNCHANGED exitCode
       ELSE /\ pc' = "exited"
            /\ exitCode' = 1
    /\ UNCHANGED <<fs, cfg, stack, registry, regCalls, logs, orders, walkResult,
                   listenCalled, run, prevRegs, prevOrders, tpath, tresult, httpVars, cfgVars, cliVars>>

\* loadRoutes up to the call of loadRoutesFromDirectory(fastify, routesDir)
LoadRoutes ==
    /\ pc = "discover"
    /\ pc' = "walking"
    /\ logs' = Append(logs, Log("info", "loading", Root, "none"))
    /\ stack' = <<Frame(Root)>>
    /\ UNCHANGED <<fs, cfg, registry, regCalls, orders, walkResult, listenCalled,
                   exitCode, run, prevRegs, prevOrders, tpath, tresult, httpVars, cfgVars, cliVars>>

\* variant: the failure of readdir on the routes directory leaves the function
Readdir_RootFatal ==
    /\ pc = "walking" /\ stack # <<>> /\ Top.st = "readdir"
    /\ IF ReaddirFails(Top.dir)
       THEN /\ logs' = Append(logs, Log("error", "dirError", Top.dir, "readdir"))
            /\ stack' = AfterDirFailure(stack)
            /\ walkResult' = IF Top.dir = Root THEN "rejected"
                              ELSE Settled(stack', walkResult)
            /\ UNCHANGED orders
       ELSE /\ \E p \in ReaddirResults(Top.dir) :
                  /\ stack' = [stack EXCEPT ![Len(stack)] =
                                  [Top EXCEPT !.entries = p, !.idx = 1, !.st = "stat"]]
                  /\ orders' = [orders EXCEPT ![Top.dir] = p]
            /\ UNCHANGED <<logs, walkResult>>
    /\ UNCHANGED <<fs, cfg, pc, registry, regCalls, listenCalled, exitCode, run,
                   prevRegs, prevOrders, tpath, tresult, httpVars, cfgVars, cliVars>>

\* await readdir(dirPath, { withFileTypes: true })
Readdir ==
    /\ pc = "walking" /\ stack # <<>> /\ Top.st = "readdir"
    /\ IF ReaddirFails(Top.dir)
       THEN /\ logs' = Append(logs, Log("error", "dirError", Top.dir, "readdir"))
            /\ stack' = AfterDirFailure(stack)
            /\ walkResult' = Settled(stack', walkResult)
            /\ UNCHANGED orders
       ELSE /\ \E p \in ReaddirResults(Top.dir) :
                  /\ stack' = [stack EXCEPT ![Len(stack)] =
                                  [Top EXCEPT !.entries = p, !.idx = 1, !.st = "stat"]]
                  /\ orders' = [orders EXCEPT ![Top.dir] = p]
            /\ UNCHANGED <<logs, walkResult>>
    /\ UNCHANGED <<fs, cfg, pc, registry, regCalls, listenCalled, exitCode, run,
                   prevRegs, prevOrders, tpath, tresult, httpVars, cfgVars, cliVars>>

\* variant: a failure of stat is caught for the entry alone and the loop goes on
Stat_PerEntry ==
    /\ pc = "walking" /\ stack # <<>> /\ Top.st = "stat" /\ Top.idx <= Len(Top.entries)
    /\ LET e == EntryAt(Top)
       IN  IF fs.beh[e] = "statFails"
           THEN /\ logs' = Append(logs, Log("error", "dirError", Top.dir, "stat"))
                /\ stack' = AfterFileFailure(stack)
                /\ UNCHANGED walkResult
           ELSE /\ UNCHANGED <<logs, walkResult>>
                /\ stack' =
                     IF Node(e).dir
                     THEN Append([stack EXCEPT ![Len(stack)] = [Top EXCEPT !.st = "call"]],
                                 Frame(e))
                     ELSE IF fs.beh[e] # "special" /\ IsCandidateName(Node(e).name)
                          THEN [stack EXCEPT ![Len(stack)] = [Top EXCEPT !.st = "import"]]
                     ELSE [stack EXCEPT ![Len(stack)] = Advance(Top)]
    /\ UNCHANGED <<fs, cfg, pc, registry, regCalls, orders, listenCalled, exitCode, run,
                   prevRegs, prevOrders, tpath, tresult, httpVars, cfgVars, cliVars>>

\* await stat(fullPath) for the next entry and the branch on its kind
Stat ==
    /\ pc = "walking" /\ stack # <<>> /\ Top.st = "stat" /\ Top.idx <= Len(Top.entries)
    /\ LET e == EntryAt(Top)
       IN  IF fs.beh[e] = "statFails"
           THEN /\ logs' = Append(logs, Log("error", "dirError", Top.dir, "stat"))
                /\ stack' = AfterDirFailure(stack)
                /\ walkResult' = Settled(stack', walkResult)
           ELSE /\ UNCHANGED <<logs, walkResult>>
                /\ stack' =
                     IF Node(e).dir
                     THEN Append([stack EXCEPT ![Len(stack)] = [Top EXCEPT !.st = "call"]],
                                 Frame(e))
                     ELSE IF fs.beh[e] # "special" /\ IsCandidateName(Node(e).name)
                          THEN [stack EXCEPT ![Len(stack)] = [Top EXCEPT !.st = "import"]]
                     ELSE [stack EXCEPT ![Len(stack)] = Advance(Top)]
    /\ UNCHANGED <<fs, cfg, pc, registry, regCalls, orders, listenCalled, exitCode, run,
                   prevRegs, prevOrders, tpath, tresult, httpVars, cfgVars, cliVars>>

\* the for loop is exhausted: the call resolves
ReturnDir ==
    /\ pc = "walking" /\ stack # <<>> /\ Top.st = "stat" /\ Top.idx > Len(Top.entries)
    /\ stack' = Returned(stack)
    /\ walkResult' = Settled(stack', walkResult)
    /\ UNCHANGED <<fs, cfg, pc, registry, regCalls, logs, orders, listenCalled, exitCode,
                   run, prevRegs, prevOrders, tpath, tresult, httpVars, cfgVars, cliVars>>

\* variant: fastify.register is called without await, the loop moves on at once
Import_NoAwait ==
    /\ pc = "walking" /\ stack # <<>> /\ Top.st = "import"
    /\ LET e == EntryAt(Top)
       IN  IF fs.beh[e] = "importThrows"
           THEN /\ logs' = Append(logs, Log("error", "loadFailed", e, "import"))
                /\ stack' = AfterFileFailure(stack)
                /\ UNCHANGED regCalls
           ELSE IF ~HasPluginExport(fs.beh[e])
           THEN /\ logs' = Append(logs, Log("warn", "invalidExport", e, "none"))
                /\ stack' = [stack EXCEPT ![Len(stack)] = Advance(Top)]
                /\ UNCHANGED regCalls
           ELSE /\ regCalls' = Append(regCalls,
                       [file |-> e,
                        prefix |-> RoutePathOf[e]])
                /\ stack' = [stack EXCEPT ![Len(stack)] = Advance(Top)]
                /\ UNCHANGED logs
    /\ UNCHANGED <<fs, cfg, pc, registry, orders, walkResult, listenCalled, exitCode, run,
                   prevRegs, prevOrders, tpath, tresult, httpVars, cfgVars, cliVars>>

\* variant: the test of the default export has no else branch
Import_SilentInvalid ==
    /\ pc = "walking" /\ stack # <<>> /\ Top.st = "import"
    /\ LET e == EntryAt(Top)
       IN  IF fs.beh[e] = "importThrows"
           THEN /\ logs' = Append(logs, Log("error", "loadFailed", e, "import"))
                /\ stack' = AfterFileFailure(stack)
                /\ UNCHANGED regCalls
           ELSE IF ~HasPluginExport(fs.beh[e])
           THEN /\ UNCHANGED logs
                /\ stack' = [stack EXCEPT ![Len(stack)] = Advance(Top)]
                /\ UNCHANGED regCalls
           ELSE /\ regCalls' = Append(regCalls,
                       [file |-> e,
                        prefix |-> RoutePathOf[e]])
                /\ stack' = [stack EXCEPT ![Len(stack)] = [Top EXCEPT !.st = "register"]]
                /\ UNCHANGED logs
    /\ UNCHANGED <<fs, cfg, pc, registry, orders, walkResult, listenCalled, exitCode, run,
                   prevRegs, prevOrders, tpath, tresult, httpVars, cfgVars, cliVars>>

\* await import(`file://${fullPath}`), the test of the default export, and the call
\* fastify.register(routePlugin, { prefix: routePath })
Import ==
    /\ pc = "walking" /\ stack # <<>> /\ Top.st = "import"
    /\ LET e == EntryAt(Top)
       IN  IF fs.beh[e] = "importThrows"
           THEN /\ logs' = Append(logs, Log("error", "loadFailed", e, "import"))
                /\ stack' = AfterFileFailure(stack)
                /\ UNCHANGED regCalls
           ELSE IF ~HasPluginExport(fs.beh[e])
           THEN /\ logs' = Append(logs, Log("warn", "invalidExport", e, "none"))
                /\ stack' = [stack EXCEPT ![Len(stack)] = Advance(Top)]
                /\ UNCHANGED regCalls
           ELSE /\ regCalls' = Append(regCalls,
                       [file |-> e,
                        prefix |-> RoutePathOf[e]])
                /\ stack' = [stack EXCEPT ![Len(stack)] = [Top EXCEPT !.st = "register"]]
                /\ UNCHANGED logs
    /\ UNCHANGED <<fs, cfg, pc, registry, orders, walkResult, listenCalled, exitCode, run,
                   prevRegs, prevOrders, tpath, tresult, httpVars, cfgVars, cliVars>>

\* variant: the error of a registration is not caught per file but leaves the walk
Register_Rethrows ==
    /\ pc = "walking" /\ stack # <<>> /\ Top.st = "register"
    /\ LET e == EntryAt(Top)
           res == RunPlugin(registry, e, regCalls[Len(regCalls)].prefix)
       IN  /\ registry' = res.reg
           /\ IF res.err = "none"
              THEN /\ logs' = Append(logs, Log("info", "loaded", e, "none"))
                   /\ stack' = [stack EXCEPT ![Len(stack)] = Advance(Top)]
                   /\ UNCHANGED walkResult
              ELSE /\ logs' = Append(logs, Log("error", "loadFailed", e, res.err))
                   /\ stack' = <<>>
                   /\ walkResult' = "rejected"
    /\ UNCHANGED <<fs, cfg, pc, regCalls, orders, listenCalled, exitCode, run,
                   prevRegs, prevOrders, tpath, tresult, httpVars, cfgVars, cliVars>>

\* the awaited registration settles: the plugin has run
Register ==
    /\ pc = "walking" /\ stack # <<>> /\ Top.st = "register"
    /\ LET e == EntryAt(Top)
           res == RunPlugin(registry, e, regCalls[Len(regCalls)].prefix)
       IN  /\ registry' = res.reg
           /\ IF res.err = "none"
              THEN /\ logs' = Append(logs, Log("info", "loaded", e, "none"))
                   /\ stack' = [stack EXCEPT ![Len(stack)] = Advance(Top)]
              ELSE /\ logs' = Append(logs, Log("error", "loadFailed", e, res.err))
                   /\ stack' = AfterFileFailure(stack)
    /\ UNCHANGED <<fs, cfg, pc, regCalls, orders, walkResult, listenCalled, exitCode, run,
                   prevRegs, prevOrders, tpath, tresult, httpVars, cfgVars, cliVars>>

\* loadRoutes after the await: success log, or the catch that logs and rethrows, which
\* rejects buildApp and makes start() exit
LoadRoutesDone ==
    /\ pc = "walking" /\ stack = <<>>
    /\ IF walkResult = "resolved"
       THEN /\ logs' = Append(logs, Log("info", "allLoaded", Root, "none"))
            /\ pc' = "routesLoaded"
            /\ UNCHANGED exitCode
       ELSE /\ logs' = Append(logs, Log("error", "failedToLoadRoutes", Root, "walk"))
            /\ pc' = "exited"
            /\ exitCode' = 1
    /\ UNCHANGED <<fs, cfg, stack, registry, regCalls, orders, walkResult, listenCalled,
                   run, prevRegs, prevOrders, tpath, tresult, httpVars, cfgVars, cliVars>>

\* the rest of buildApp: 'Routes loaded', server.get('/health'), return server
BuildAppFinish ==
    /\ pc = "routesLoaded"
    /\ pc' = "built"
    /\ logs' = Append(logs, Log("info", "routesLoaded", Root, "none"))
    /\ registry' = registry \cup {[method |-> "GET", url |-> S_health, file |-> Root]}
    /\ UNCHANGED <<fs, cfg, stack, regCalls, orders, walkResult, listenCalled, exitCode,
                   run, prevRegs, prevOrders, tpath, tresult, httpVars, cfgVars, cliVars>>

\* variant: buildApp is not awaited
CanListen_NoAwait == pc \in {"walking", "routesLoaded", "built"}

\* start() may call app.listen once buildApp has returned
CanListen == pc = "built"

S_docs == <<SLASH, "d", "o", "c", "s">>

\* variant: a route is still bound while listen makes the server ready
Listen_BindsLate ==
    /\ CanListen
    /\ listenCalled' = TRUE
    /\ registry' = registry \cup {[method |-> "GET", url |-> S_docs, file |-> Root]}
    /\ \E ok \in BOOLEAN :
          IF ok THEN pc' = "listening" /\ UNCHANGED exitCode
          ELSE pc' = "exited" /\ exitCode' = 1
    /\ UNCHANGED <<fs, cfg, stack, regCalls, logs, orders, walkResult, run,
                   prevRegs, prevOrders, tpath, tresult, httpVars, cfgVars, cliVars>>

\* await app.listen(...): the server listens, or listen rejects and start() exits
Listen ==
    /\ CanListen
    /\ listenCalled' = TRUE
    /\ \E ok \in BOOLEAN :
          IF ok THEN pc' = "listening" /\ UNCHANGED exitCode
          ELSE pc' = "exited" /\ exitCode' = 1
    /\ UNCHANGED <<fs, cfg, stack, registry, regCalls, logs, orders, walkResult, run,
                   prevRegs, prevOrders, tpath, tresult, httpVars, cfgVars, cliVars>>

----------------------------------------------------------------------------
(* The environment and loadConfig (lib/config.ts) *)

MaxLoads == 2        \* calls of loadConfig
MaxEnvChanges == 2   \* changes of the environment

S_true == <<"t", "r", "u", "e">>
S_false == <<"f", "a", "l", "s", "e">>
S_development == <<"d", "e", "v", "e", "l", "o", "p", "m", "e", "n", "t">>
S_staging == <<"s", "t", "a", "g", "i", "n", "g">>
S_production == <<"p", "r", "o", "d", "u", "c", "t", "i", "o", "n">>
S_test == <<"t", "e", "s", "t">>
S_info == <<"i", "n", "f", "o">>
S_debug == <<"d", "e", "b", "u", "g">>
S_verbose == <<"v", "e", "r", "b", "o", "s", "e">>
S_8080 == <<"8", "0", "8", "0">>
S_65535 == <<"6", "5", "5", "3", "5">>
S_65536 == <<"6", "5", "5", "3", "6">>
S_1 == <<"1">>
S_3p5 == <<"3", ".", "5">>
S_abc == <<"a", "b", "c">>
S_originA == <<"h", "t", "t", "p", ":", "/", "/", "a">>
S_originB == <<"h", "t", "t", "p", ":", "/", "/", "b">>
S_devDb == <<"f", "i", "l", "e", ":", ".", "/", "d", "e", "v", ".", "d", "b">>
S_dbUrl == <<"p", "g", ":", "/", "/", "h", "/", "d", "b">>
S_notUrl == <<"l", "o", "c", "a", "l", "h", "o", "s", "t">>

S_twoOrigins == S_originA \o <<",">> \o S_originB

\* process.env[name] of a variable that is not set
Unset == <<"unset">>

EnvVars == {"PORT", "NODE_ENV", "SWAGGER_ENABLED", "CORS_ORIGIN", "CORS_CREDENTIALS",
            "DATABASE_URL", "LOG_LEVEL", "LOG_ENABLE_REQUEST"}

\* the values each variable is given
EnvValues(v) ==
    CASE v = "PORT" -> {<<>>, S_1, S_8080, S_65535, S_65536, S_3p5, S_abc}
      [] v = "NODE_ENV" -> {S_development, S_production, S_test}
      [] v = "SWAGGER_ENABLED" -> {S_true, S_false, <<>>}
      [] v = "CORS_ORIGIN" -> {S_true, S_originA, S_twoOrigins}
      [] v = "CORS_CREDENTIALS" -> {S_true, S_false}
      [] v = "DATABASE_URL" -> {S_dbUrl, S_notUrl}
      [] v = "LOG_LEVEL" -> {S_debug, S_verbose}
      [] v = "LOG_ENABLE_REQUEST" -> {S_true, S_false, <<>>}

IsDigits(s) == \A i \in 1..Len(s) : s[i] \in Digits

RECURSIVE DecimalValue(_)
DecimalValue(s) ==
    IF s = <<>> THEN 0
    ELSE DecimalValue(SubSeq(s, 1, Len(s) - 1)) * 10 + (CharCode(s[Len(s)]) - 48)

NaN == [nan |-> TRUE, int |-> FALSE, val |-> 0]

\* Number(s) for a string: '' is 0, a decimal literal is its value, anything else NaN;
\* int tells whether the value is an integer, val is its integer part
ToNumber(s) ==
    LET dots == {i \in 1..Len(s) : s[i] = "."}
    IN  IF s = <<>> THEN [nan |-> FALSE, int |-> TRUE, val |-> 0]
        ELSE IF IsDigits(s) THEN [nan |-> FALSE, int |-> TRUE, val |-> DecimalValue(s)]
        ELSE IF Cardinality(dots) = 1 /\ Len(s) > 1
        THEN LET d == CHOOSE i \in dots : TRUE
                 whole == SubSeq(s, 1, d - 1)
                 frac == SubSeq(s, d + 1, Len(s))
             IN  IF IsDigits(whole) /\ IsDigits(frac)
                 THEN [nan |-> FALSE, int |-> \A i \in 1..Len(frac) : frac[i] = "0",
                       val |-> DecimalValue(whole)]
                 ELSE NaN
        ELSE NaN

\* Boolean(s) for a string: only the empty string is false
ToBoolean(s) == s # <<>>

\* new URL(s) accepts a string that starts with a scheme: letters followed by ':'
IsUrl(s) ==
    \E i \in 2..Len(s) :
        /\ s[i] = ":"
        /\ \A k \in 1..(i - 1) : s[k] \notin Digits \cup {SLASH, ".", ":", ","}

NodeEnvs == {S_development, S_staging, S_production}
LogLevels == {<<"t", "r", "a", "c", "e">>, S_debug, S_info, <<"w", "a", "r", "n">>,
              <<"e", "r", "r", "o", "r">>, <<"f", "a", "t", "a", "l">>}

\* rawConfig: the fields of the object built from process.env that the schema can
\* reject or convert
RawConfig(e) ==
    [port |-> e["PORT"],
     nodeEnv |-> e["NODE_ENV"],
     swagger |-> [enabled |-> e["SWAGGER_ENABLED"]],
     cors |-> [origin |-> e["CORS_ORIGIN"], credentials |-> e["CORS_CREDENTIALS"]],
     database |-> [url |-> IF e["DATABASE_URL"] \notin {Unset, <<>>} THEN e["DATABASE_URL"]
                           ELSE IF e["NODE_ENV"] = S_development THEN S_devDb
                           ELSE Unset],
     logging |-> [level |-> e["LOG_LEVEL"],
                  enableRequestLogging |-> e["LOG_ENABLE_REQUEST"]]]

SchemaPaths == {"port", "nodeEnv", "cors.credentials", "database.url", "logging.level"}

\* whether ConfigSchema accepts the field of rawConfig at a path: an undefined field
\* takes its default or is optional; z.coerce.number().int().min(1).max(65535);
\* z.enum; z.boolean() on a string; z.string().url()
Accepts(raw, path) ==
    CASE path = "port" ->
            \/ raw.port = Unset
            \/ LET n == ToNumber(raw.port)
               IN  ~n.nan /\ n.int /\ n.val >= 1 /\ n.val <= 65535
      [] path = "nodeEnv" -> raw.nodeEnv = Unset \/ raw.nodeEnv \in NodeEnvs
      [] path = "cors.credentials" -> raw.cors.credentials = Unset
      [] path = "database.url" -> raw.database.url = Unset \/ IsUrl(raw.database.url)
      [] path = "logging.level" -> raw.logging.level = Unset \/ raw.logging.level \in LogLevels

\* the paths of rawConfig that ConfigSchema rejects
Issues(raw) == {path \in SchemaPaths : ~Accepts(raw, path)}

\* the value ConfigSchema.parse returns for a rawConfig it accepts: defaults for
\* what is undefined, z.coerce for the port and the feature flags
Parsed(raw) ==
    [port |-> IF raw.port = Unset THEN 3000 ELSE ToNumber(raw.port).val,
     nodeEnv |-> IF raw.nodeEnv = Unset THEN S_development ELSE raw.nodeEnv,
     swagger |-> [enabled |-> IF raw.swagger.enabled = Unset THEN TRUE
                              ELSE ToBoolean(raw.swagger.enabled)],
     cors |-> [origin |-> IF raw.cors.origin = Unset
                          THEN [kind |-> "boolean", val |-> <<TRUE>>]
                          ELSE [kind |-> "string", val |-> raw.cors.origin],
               credentials |-> TRUE],
     database |-> [url |-> raw.database.url],
     logging |-> [level |-> IF raw.logging.level = Unset THEN S_info ELSE raw.logging.level,
                  enableRequestLogging |->
                      IF raw.logging.enableRequestLogging = Unset THEN TRUE
                      ELSE ToBoolean(raw.logging.enableRequestLogging)]]

\* variant: every call parses the environment again
loadConfig_NoCache(cache, e) ==
    IF Issues(RawConfig(e)) = {}
    THEN [threw |-> "none", value |-> <<Parsed(RawConfig(e))>>,
          cache |-> <<Parsed(RawConfig(e))>>, readEnv |-> TRUE]
    ELSE [threw |-> "Invalid configuration", value |-> <<>>, cache |-> cache,
          readEnv |-> TRUE]

\* loadConfig(): the cached value if there is one, else the parse of the environment;
\* cache is <<>> for null and <<config>> otherwise
loadConfig(cache, e) ==
    IF cache # <<>>
    THEN [threw |-> "none", value |-> cache, cache |-> cache, readEnv |-> FALSE]
    ELSE IF Issues(RawConfig(e)) = {}
    THEN [threw |-> "none", value |-> <<Parsed(RawConfig(e))>>,
          cache |-> <<Parsed(RawConfig(e))>>, readEnv |-> TRUE]
    ELSE [threw |-> "Invalid configuration", value |-> <<>>, cache |-> cache,
          readEnv |-> TRUE]

NoLoad == [threw |-> "none", value |-> <<>>, readEnv |-> FALSE]

OptionalPlugins == {"requestLogger", "swagger", "swaggerUI"}

NoConfigLoad ==
    /\ env = [v \in EnvVars |-> Unset]
    /\ cachedConfig = <<>>
    /\ lastLoad = NoLoad
    /\ loadCalls = 0
    /\ envChanges = 0
    /\ plugins = <<>>

----------------------------------------------------------------------------
(* createProject (cli/commands/create.ts): the project directory *)

MaxOldEntries == 2   \* entries of a project directory that exists already

\* what an existing project directory may hold
OldEntries == {"package.json", "src/app.ts", "data.db"}

\* the project directory: whether it exists, the entries left of what it held, and
\* the directories and files createProject has made in it
Absent == [exists |-> FALSE, old |-> {}, made |-> {}]

Targets ==
    {Absent} \cup {[exists |-> TRUE, old |-> o, made |-> {}] :
                      o \in {x \in SUBSET OldEntries : Cardinality(x) <= MaxOldEntries}}

\* createProjectStructure: fs.mkdir for each directory, then the eight generate
\* functions with one fs.writeFile each
Steps ==
    <<[op |-> "mkdir", path |-> "src/routes/v1"],
      [op |-> "mkdir", path |-> "src/plugins"],
      [op |-> "mkdir", path |-> "src/services"],
      [op |-> "mkdir", path |-> "src/utils"],
      [op |-> "mkdir", path |-> "src/lib"],
      [op |-> "mkdir", path |-> "tests"],
      [op |-> "mkdir", path |-> "prisma"],
      [op |-> "writeFile", path |-> "package.json"],
      [op |-> "writeFile", path |-> "tsconfig.json"],
      [op |-> "writeFile", path |-> ".env.example"],
      [op |-> "writeFile", path |-> "prisma/schema.prisma"],
      [op |-> "writeFile", path |-> "src/app.ts"],
      [op |-> "writeFile", path |-> "src/routes/v1/health.ts"],
      [op |-> "writeFile", path |-> "README.md"],
      [op |-> "writeFile", path |-> ".gitignore"]>>

\* how inquirer.prompt for the overwrite question may settle
PromptOutcomes == {"yes", "no", "rejected"}

NoCli ==
    /\ cliPc = "idle"
    /\ cliStep = 1
    /\ answer = "none"
    /\ initialTarget = Absent
    /\ target = Absent
    /\ fsOps = <<>>

----------------------------------------------------------------------------
(* Requests and the hooks of the correlation-id plugin *)

MaxRequests == 2   \* requests the server receives

\* encapsulation contexts: the server instance, and the child instance that
\* server.register creates for each plugin that is not wrapped to share its parent's
Contexts == {"root", "correlationId", "requestLogger", "errorHandler", "routes"}

HookNames == {"onRequest", "onSend"}

\* the routes of the server and the context each was declared in: GET /health on the
\* server instance, the discovered routes inside the loadRoutes plugin
Routes == {"health", "list"}

RouteContext(route) == IF route = "health" THEN "root" ELSE "routes"

\* values of the x-correlation-id header of an incoming request
SentHeaders == {"undefined", "", "c1", "c2"}

\* the n-th value returned by randomUUID
Uuid(n) ==
    CASE n = 1 -> "uuid-1" [] n = 2 -> "uuid-2" [] n = 3 -> "uuid-3" [] OTHER -> "uuid-4"

Falsy(v) == v \in {"undefined", ""}

NoRequest ==
    [st |-> "none", route |-> "health", sent |-> "undefined", header |-> "undefined",
     requestId |-> "undefined", resHeader |-> "undefined"]

NoTraffic ==
    /\ ctxHooks = [c \in Contexts |-> {}]
    /\ requests = [r \in 1..MaxRequests |-> NoRequest]
    /\ uuids = 0
    /\ reqLogs = <<>>

NoOrders == [d \in DirIds \cup {Root} |-> <<>>]

Init ==
    /\ fs \in Trees
    /\ cfg \in Configs
    /\ pc = "start"
    /\ stack = <<>>
    /\ registry = {}
    /\ regCalls = <<>>
    /\ logs = <<>>
    /\ orders = NoOrders
    /\ walkResult = "pending"
    /\ listenCalled = FALSE
    /\ exitCode = -1
    /\ run = 1
    /\ prevRegs = <<>>
    /\ prevOrders = NoOrders
    /\ tpath = <<>>
    /\ tresult = <<>>
    /\ NoTraffic
    /\ NoConfigLoad
    /\ NoCli

Next ==
    \/ BuildApp
    \/ LoadRoutes
    \/ Readdir
    \/ Stat
    \/ ReturnDir
    \/ Import
    \/ Register
    \/ LoadRoutesDone
    \/ BuildAppFinish
    \/ Listen

Spec == Init /\ [][Next]_vars

----------------------------------------------------------------------------
(* A second start of the process over the unchanged tree *)

\* the successful registrations of this start, in order
Loaded(f) == \E i \in 1..Len(logs) : logs[i].msg = "loaded" /\ logs[i].node = f

IsRegistration(c) == Loaded(c.file)

Registrations == SelectSeq(regCalls, IsRegistration)

\* variant: the dispatch table is a process-wide structure that outlives the start
Restart_KeepsRegistry ==
    /\ pc \in {"listening", "exited"}
    /\ run = 1
    /\ run' = run + 1
    /\ prevRegs' = Registrations
    /\ prevOrders' = orders
    /\ pc' = "start"
    /\ stack' = <<>>
    /\ regCalls' = <<>>
    /\ logs' = <<>>
    /\ orders' = NoOrders
    /\ walkResult' = "pending"
    /\ listenCalled' = FALSE
    /\ exitCode' = -1
    /\ UNCHANGED <<fs, cfg, registry, tpath, tresult, httpVars, cfgVars, cliVars>>

\* the process ended or serves; it is started again: nothing survives a restart but
\* the tree on disk and the environment
Restart ==
    /\ pc \in {"listening", "exited"}
    /\ run = 1
    /\ run' = run + 1
    /\ prevRegs' = Registrations
    /\ prevOrders' = orders
    /\ pc' = "start"
    /\ stack' = <<>>
    /\ registry' = {}
    /\ regCalls' = <<>>
    /\ logs' = <<>>
    /\ orders' = NoOrders
    /\ walkResult' = "pending"
    /\ listenCalled' = FALSE
    /\ exitCode' = -1
    /\ UNCHANGED <<fs, cfg, tpath, tresult, httpVars, cfgVars, cliVars>>

NextRerun == Next \/ Restart

MaxRerunDeviant == 0   \* entries that are not plain in a tree that is walked twice

InitRerun ==
    /\ Init
    /\ Cardinality({n \in fs.present : fs.beh[n] # "ok"}) <= MaxRerunDeviant

SpecRerun == InitRerun /\ [][NextRerun]_vars

----------------------------------------------------------------------------
(* determineRoutePath on its own, over bounded file paths *)

MaxSegLen == 2     \* characters of a generated path segment
MaxDepth == 2      \* segments of a generated relative path

SegChars == {"[", "]", "a"}

S_a == <<"a">>
S_b == <<"b">>
S_dynX == <<"[", "x", "]">>
S_dynY == <<"[", "y", "]">>
S_dynId == <<"[", "i", "d", "]">>
S_twoPairs == <<"[", "a", "]", "[", "b", "]">>

\* path segments of up to maxLen generated characters, and the segments of the examples
Segs(maxLen) ==
    UNION {[1..n -> SegChars] : n \in 1..maxLen}
    \cup {S_index, S_users, S_dynId, S_twoPairs, <<"[", "[", "a", "]">>, <<"[", "a", "]", "]">>,
          <<":", "a">>}

\* relative paths of up to maxDepth segments
RelPaths(maxDepth) ==
    UNION {[1..n -> Segs(MaxSegLen)] : n \in 1..maxDepth}
    \cup {<<S_a, S_b, S_dynX, S_dynY>>}

\* directories the relative paths are placed in
TestDirs ==
    {RoutesDir \o <<SLASH>> \o S_v1,
     RoutesDir \o <<SLASH>> \o <<"v", "1", "2">>,
     RoutesDir}

TestInputs(dirs) ==
    {[dir |-> d, segs |-> r, ext |-> x] : d \in dirs, r \in RelPaths(MaxDepth), x \in {S_ts, S_js}}

\* fullPath of a test input: the directory, the segments, the extension
TestFilePath(t) == t.dir \o <<SLASH>> \o JoinWith(t.segs, SLASH) \o t.ext

InitPath ==
    /\ fs = [root |-> FALSE, present |-> {}, beh |-> [n \in NodeIds |-> "ok"]]
    /\ cfg = [valid |-> TRUE, basePath |-> S_api, version |-> S_v1]
    /\ pc = "transform"
    /\ stack = <<>>
    /\ registry = {}
    /\ regCalls = <<>>
    /\ logs = <<>>
    /\ orders = NoOrders
    /\ walkResult = "pending"
    /\ listenCalled = FALSE
    /\ exitCode = -1
    /\ run = 1
    /\ prevRegs = <<>>
    /\ prevOrders = NoOrders
    /\ tpath \in TestInputs(TestDirs)
    /\ tresult = <<>>
    /\ NoTraffic
    /\ NoConfigLoad
    /\ NoCli

Transform ==
    /\ pc = "transform"
    /\ pc' = "transformed"
    /\ tresult' = determineRoutePath(TestFilePath(tpath), <<>>)
    /\ UNCHANGED <<fs, cfg, stack, registry, regCalls, logs, orders, walkResult,
                   listenCalled, exitCode, run, prevRegs, prevOrders, tpath,
                   httpVars, cfgVars, cliVars>>

NextPath == Transform

SpecPath == InitPath /\ [][NextPath]_vars

----------------------------------------------------------------------------
(* determineRoutePath over projects at several locations and version directories *)

MaxPrefixDepth == 2    \* segments of a relative path below the directory

S_beta == <<"b", "e", "t", "a">>

\* values of process.cwd(): two plain ones, and one that itself lies below a
\* directory routes/v3
Locations ==
    {Cwd, <<SLASH, "x">>, <<SLASH>> \o S_routes \o <<SLASH, "v", "3">> \o <<SLASH, "w">>}

\* directories below src/routes that hold the file: routes itself, version
\* directories, and directories whose name is not v<digits>
SubDirs ==
    {<<>>,
     <<SLASH>> \o S_v1,
     <<SLASH, "v", "1", "2">>,
     <<SLASH>> \o S_beta,
     <<SLASH, "v">>,
     <<SLASH, "v", "1", "x">>,
     <<SLASH>> \o S_v1 \o <<SLASH>> \o S_routes \o <<SLASH>> \o S_v2,
     <<SLASH>> \o S_v1 \o <<SLASH>> \o S_routes \o <<SLASH>> \o S_beta}

PrefixSegs == {S_a, S_index, S_dynId, S_routes, S_v2}

PrefixRelPaths(maxDepth) == UNION {[1..n -> PrefixSegs] : n \in 1..maxDepth}

\* join(process.cwd(), 'src', 'routes') followed by the directories walked into
DirAt(cwd, sub) == cwd \o <<SLASH>> \o S_src \o <<SLASH>> \o S_routes \o sub

PrefixInputs(maxDepth) ==
    {[cwd |-> c, sub |-> d, dir |-> DirAt(c, d), segs |-> r, ext |-> x] :
        c \in Locations, d \in SubDirs, r \in PrefixRelPaths(maxDepth), x \in {S_ts, S_js}}

InitPrefix ==
    /\ fs = [root |-> FALSE, present |-> {}, beh |-> [n \in NodeIds |-> "ok"]]
    /\ cfg = [valid |-> TRUE, basePath |-> S_api, version |-> S_v1]
    /\ pc = "transform"
    /\ stack = <<>>
    /\ registry = {}
    /\ regCalls = <<>>
    /\ logs = <<>>
    /\ orders = NoOrders
    /\ walkResult = "pending"
    /\ listenCalled = FALSE
    /\ exitCode = -1
    /\ run = 1
    /\ prevRegs = <<>>
    /\ prevOrders = NoOrders
    /\ tpath \in PrefixInputs(MaxPrefixDepth)
    /\ tresult = <<>>
    /\ NoTraffic
    /\ NoConfigLoad
    /\ NoCli

SpecPrefix == InitPrefix /\ [][NextPath]_vars

----------------------------------------------------------------------------
(* Serving requests: the correlation-id plugin *)

loaderVars == <<fs, cfg, stack, registry, regCalls, logs, orders, walkResult,
                listenCalled, exitCode, run, prevRegs, prevOrders, tpath, tresult>>

\* await server.register(correlationId): the plugin is a plain async function, so it
\* runs on a child instance that starts with the hooks of the server instance, and
\* its two addHook calls add to that child only
RegisterCorrelationId ==
    /\ pc = "plugins"
    /\ pc' = "routes"
    /\ ctxHooks' = [ctxHooks EXCEPT !["correlationId"] = ctxHooks["root"] \cup HookNames]
    /\ UNCHANGED <<loaderVars, cfgVars, cliVars, reqLogs, requests, uuids>>

\* await server.register(loadRoutes, ...) and server.get('/health', ...): the child
\* instance of loadRoutes starts with the hooks of the server instance
RegisterRoutes ==
    /\ pc = "routes"
    /\ pc' = "serving"
    /\ ctxHooks' = [ctxHooks EXCEPT !["routes"] = ctxHooks["root"]]
    /\ UNCHANGED <<loaderVars, cfgVars, cliVars, reqLogs, requests, uuids>>

\* a route runs the hooks of the instance it was declared on
HookRuns(req, hook) == hook \in ctxHooks[RouteContext(req.route)]

\* a request for one of the routes arrives
Receive(r) ==
    /\ pc = "serving" /\ requests[r].st = "none"
    /\ \E h \in SentHeaders, rt \in Routes :
          requests' = [requests EXCEPT ![r] =
                          [NoRequest EXCEPT !.st = "received", !.route = rt,
                                            !.sent = h, !.header = h]]
    /\ UNCHANGED <<loaderVars, cfgVars, cliVars, reqLogs, pc, ctxHooks, uuids>>

\* the onRequest hook: header value or a new UUID, stored on the request object and
\* written back to its headers
correlationIdOnRequest(req, fresh) ==
    LET correlationId == IF Falsy(req.header) THEN fresh ELSE req.header
    IN  [req EXCEPT !.requestId = correlationId, !.header = correlationId]

\* the onRequest phase of request r
OnRequest(r) ==
    /\ pc = "serving" /\ requests[r].st = "received"
    /\ IF HookRuns(requests[r], "onRequest")
       THEN LET req == correlationIdOnRequest(requests[r], Uuid(uuids + 1))
            IN  /\ requests' = [requests EXCEPT ![r] = [req EXCEPT !.st = "handling"]]
                /\ uuids' = IF Falsy(requests[r].header) THEN uuids + 1 ELSE uuids
       ELSE /\ requests' = [requests EXCEPT ![r].st = "handling"]
            /\ UNCHANGED uuids
    /\ UNCHANGED <<loaderVars, cfgVars, cliVars, reqLogs, pc, ctxHooks>>

\* the handler has replied; the onSend phase of request r: reply.header(
\* 'x-correlation-id', request.requestId)
OnSend(r) ==
    /\ pc = "serving" /\ requests[r].st = "handling"
    /\ requests' = [requests EXCEPT ![r] =
                       [@ EXCEPT !.st = "sent",
                                 !.resHeader = IF HookRuns(requests[r], "onSend")
                                               THEN requests[r].requestId
                                               ELSE @]]
    /\ UNCHANGED <<loaderVars, cfgVars, cliVars, reqLogs, pc, ctxHooks, uuids>>

InitServe ==
    /\ fs = [root |-> FALSE, present |-> {}, beh |-> [n \in NodeIds |-> "ok"]]
    /\ cfg = [valid |-> TRUE, basePath |-> S_api, version |-> S_v1]
    /\ pc = "plugins"
    /\ stack = <<>>
    /\ registry = {}
    /\ regCalls = <<>>
    /\ logs = <<>>
    /\ orders = NoOrders
    /\ walkResult = "pending"
    /\ listenCalled = FALSE
    /\ exitCode = -1
    /\ run = 1
    /\ prevRegs = <<>>
    /\ prevOrders = NoOrders
    /\ tpath = <<>>
    /\ tresult = <<>>
    /\ NoTraffic
    /\ NoConfigLoad
    /\ NoCli

NextServe ==
    \/ RegisterCorrelationId
    \/ RegisterRoutes
    \/ \E r \in 1..MaxRequests : Receive(r)
    \/ \E r \in 1..MaxRequests : OnRequest(r)
    \/ \E r \in 1..MaxRequests : OnSend(r)

SpecServe == InitServe /\ [][NextServe]_vars

----------------------------------------------------------------------------
(* Calls of loadConfig, changes of the environment, and the plugins of buildApp *)

\* the environment changes: dotenv at module load, or an assignment to process.env
SetEnv(v, x) ==
    /\ pc = "config" /\ envChanges < MaxEnvChanges
    /\ env' = [env EXCEPT ![v] = x]
    /\ envChanges' = envChanges + 1
    /\ UNCHANGED <<loaderVars, pc, httpVars, cliVars, cachedConfig, lastLoad, loadCalls,
                   plugins>>

\* a call of loadConfig()
LoadConfig ==
    /\ pc = "config" /\ loadCalls < MaxLoads
    /\ LET res == loadConfig(cachedConfig, env)
       IN  /\ cachedConfig' = res.cache
           /\ lastLoad' = [threw |-> res.threw, value |-> res.value, readEnv |-> res.readEnv]
    /\ loadCalls' = loadCalls + 1
    /\ UNCHANGED <<loaderVars, pc, httpVars, cliVars, env, envChanges, plugins>>

\* buildApp up to the registration of loadRoutes: loadConfig(), then the request
\* logger if config.logging.enableRequestLogging, and swagger with swagger-ui if
\* config.swagger.enabled; a rejected configuration makes loadConfig throw
BuildPlugins ==
    /\ pc = "config"
    /\ LET res == loadConfig(cachedConfig, env)
       IN  /\ cachedConfig' = res.cache
           /\ lastLoad' = [threw |-> res.threw, value |-> res.value, readEnv |-> res.readEnv]
           /\ IF res.threw = "none"
              THEN LET config == res.value[1]
                   IN  /\ plugins' =
                            <<(IF config.logging.enableRequestLogging
                               THEN {"requestLogger"} ELSE {})
                              \cup (IF config.swagger.enabled
                                    THEN {"swagger", "swaggerUI"} ELSE {})>>
                       /\ pc' = "pluginsRegistered"
              ELSE /\ UNCHANGED plugins
                   /\ pc' = "buildAppThrew"
    /\ UNCHANGED <<loaderVars, httpVars, cliVars, env, envChanges, loadCalls>>

InitConfig ==
    /\ fs = [root |-> FALSE, present |-> {}, beh |-> [n \in NodeIds |-> "ok"]]
    /\ cfg = [valid |-> TRUE, basePath |-> S_api, version |-> S_v1]
    /\ pc = "config"
    /\ stack = <<>>
    /\ registry = {}
    /\ regCalls = <<>>
    /\ logs = <<>>
    /\ orders = NoOrders
    /\ walkResult = "pending"
    /\ listenCalled = FALSE
    /\ exitCode = -1
    /\ run = 1
    /\ prevRegs = <<>>
    /\ prevOrders = NoOrders
    /\ tpath = <<>>
    /\ tresult = <<>>
    /\ NoTraffic
    /\ NoConfigLoad
    /\ NoCli

NextConfig ==
    \/ \E v \in EnvVars : \E x \in EnvValues(v) \cup {Unset} : SetEnv(v, x)
    \/ LoadConfig
    \/ BuildPlugins

SpecConfig == InitConfig /\ [][NextConfig]_vars

----------------------------------------------------------------------------
(* createProject, step by step *)

appVars == <<loaderVars, pc, httpVars, cfgVars>>

\* await fs.access(projectPath): rejects when the directory does not exist, which
\* the catch takes as 'continue'
Access ==
    /\ cliPc = "access"
    /\ cliPc' = IF target.exists THEN "prompt" ELSE "structure"
    /\ UNCHANGED <<appVars, cliStep, answer, initialTarget, target, fsOps>>

\* await inquirer.prompt(overwrite): declined returns, confirmed goes on to fs.rm,
\* and a rejection of the prompt is taken by the same catch as 'continue'
Prompt ==
    /\ cliPc = "prompt"
    /\ \E a \in PromptOutcomes :
          /\ answer' = a
          /\ cliPc' = CASE a = "no" -> "cancelled"
                        [] a = "yes" -> "rm"
                        [] a = "rejected" -> "structure"
    /\ UNCHANGED <<appVars, cliStep, initialTarget, target, fsOps>>

\* where createProject goes on when fs.rm rejects: the catch takes it as 'continue'
RmFailed == "structure"

\* await fs.rm(projectPath, { recursive: true }): the directory is gone, or the call
\* rejects having removed some of the entries or none
Rm ==
    /\ cliPc = "rm"
    /\ \/ /\ target' = Absent
          /\ fsOps' = Append(fsOps, [op |-> "rm", path |-> "."])
          /\ cliPc' = "structure"
       \/ \E rest \in SUBSET target.old :
             /\ target' = [target EXCEPT !.old = rest]
             /\ fsOps' = Append(fsOps, [op |-> "rmFailed", path |-> "."])
             /\ cliPc' = RmFailed
    /\ UNCHANGED <<appVars, cliStep, answer, initialTarget>>

\* the next fs.mkdir or fs.writeFile of createProjectStructure: it is done, or it
\* rejects and createProject rejects with it
Structure ==
    /\ cliPc = "structure" /\ cliStep <= Len(Steps)
    /\ \/ /\ target' = [exists |-> TRUE, old |-> target.old \ {Steps[cliStep].path},
                        made |-> target.made \cup {Steps[cliStep].path}]
          /\ fsOps' = Append(fsOps, Steps[cliStep])
          /\ cliStep' = cliStep + 1
          /\ cliPc' = IF cliStep = Len(Steps) THEN "done" ELSE "structure"
       \/ /\ cliPc' = "failed"
          /\ UNCHANGED <<target, fsOps, cliStep>>
    /\ UNCHANGED <<appVars, answer, initialTarget>>

InitCreate ==
    /\ fs = [root |-> FALSE, present |-> {}, beh |-> [n \in NodeIds |-> "ok"]]
    /\ cfg = [valid |-> TRUE, basePath |-> S_api, version |-> S_v1]
    /\ pc = "cli"
    /\ stack = <<>>
    /\ registry = {}
    /\ regCalls = <<>>
    /\ logs = <<>>
    /\ orders = NoOrders
    /\ walkResult = "pending"
    /\ listenCalled = FALSE
    /\ exitCode = -1
    /\ run = 1
    /\ prevRegs = <<>>
    /\ prevOrders = NoOrders
    /\ tpath = <<>>
    /\ tresult = <<>>
    /\ NoTraffic
    /\ NoConfigLoad
    /\ cliPc = "access"
    /\ cliStep = 1
    /\ answer = "none"
    /\ initialTarget \in Targets
    /\ target = initialTarget
    /\ fsOps = <<>>

NextCreate ==
    \/ Access
    \/ Prompt
    \/ Rm
    \/ Structure

SpecCreate == InitCreate /\ [][NextCreate]_vars

----------------------------------------------------------------------------
(* Errors and log records of a request: plugins/error-handler.ts, the request *)
(* logger, and Fastify's own error handler                                    *)

\* the classes of lib/errors, an error of Fastify's schema validation, and a plain
\* Error thrown by a handler
ErrorKinds == {"AppError", "ValidationError", "NotFoundError", "UnauthorizedError",
               "ForbiddenError", "InternalServerError", "validation", "Error"}

AppErrorKinds == ErrorKinds \ {"validation", "Error"}

\* texts an error is constructed with, and the details a ValidationError may carry
MessageTexts == {"m1", "m2"}

DetailValues == {"undefined", "d1"}

\* new <kind>(text): code, message and statusCode as the constructors set them; a
\* status of 0 is an error object without statusCode
ErrorOf(kind, text, details) ==
    CASE kind = "AppError" ->
            [kind |-> kind, name |-> kind, app |-> TRUE, code |-> "E_CUSTOM", statusCode |-> 500,
             validation |-> FALSE, message |-> <<text>>, details |-> details]
      [] kind = "ValidationError" ->
            [kind |-> kind, name |-> kind, app |-> TRUE, code |-> "VALIDATION_ERROR", statusCode |-> 400,
             validation |-> FALSE, message |-> <<text>>, details |-> details]
      [] kind = "NotFoundError" ->
            [kind |-> kind, name |-> kind, app |-> TRUE, code |-> "NOT_FOUND", statusCode |-> 404,
             validation |-> FALSE, message |-> <<text, " not found">>,
             details |-> "undefined"]
      [] kind = "UnauthorizedError" ->
            [kind |-> kind, name |-> kind, app |-> TRUE, code |-> "UNAUTHORIZED", statusCode |-> 401,
             validation |-> FALSE, message |-> <<text>>, details |-> "undefined"]
      [] kind = "ForbiddenError" ->
            [kind |-> kind, name |-> kind, app |-> TRUE, code |-> "FORBIDDEN", statusCode |-> 403,
             validation |-> FALSE, message |-> <<text>>, details |-> "undefined"]
      [] kind = "InternalServerError" ->
            [kind |-> kind, name |-> kind, app |-> TRUE, code |-> "INTERNAL_SERVER_ERROR",
             statusCode |-> 500, validation |-> FALSE, message |-> <<text>>,
             details |-> "undefined"]
      [] kind = "validation" ->
            [kind |-> kind, name |-> "Error", app |-> FALSE, code |-> "FST_ERR_VALIDATION",
             statusCode |-> 400, validation |-> TRUE, message |-> <<text>>,
             details |-> "undefined"]
      [] OTHER ->
            [kind |-> kind, name |-> "Error", app |-> FALSE, code |-> "undefined", statusCode |-> 0,
             validation |-> FALSE, message |-> <<text>>, details |-> "undefined"]

NoError == ErrorOf("Error", "m1", "undefined")

\* the errors the model lets a handler throw
Thrown(texts) ==
    {ErrorOf(k, t, d) : k \in ErrorKinds \ {"ValidationError"}, t \in texts,
                        d \in {"undefined"}}
    \cup {ErrorOf("ValidationError", t, d) : t \in texts, d \in DetailValues}

\* values of the Authorization header and of the password field of the body
AuthValues == {"undefined", "Bearer s1", "Bearer s2"}

PasswordValues == {"undefined", "p1", "p2"}

\* a request of the error model: the fields of NoRequest, the instance its route
\* was declared on, the Authorization header, request.body (of which the model keeps
\* the password field), request.logContext, the error its handler threw, and the
\* replies sent for it
Arrived(route, ctx, h, auth, password) ==
    [st |-> "received", route |-> route, sent |-> h, header |-> h,
     requestId |-> "undefined", resHeader |-> "undefined", ctx |-> ctx,
     authorization |-> auth, body |-> password, logContext |-> <<>>,
     threw |-> FALSE, error |-> NoError, replies |-> 0, status |-> 0,
     resBody |-> [none |-> TRUE], handledBy |-> "none"]

\* the JSON text of { error: { code, message, details, timestamp, requestId } }: a
\* key whose value is undefined is left out
StandardBody(code, message, details, requestId) ==
    IF details = "undefined"
    THEN [error |-> [code |-> code, message |-> message, timestamp |-> "now",
                     requestId |-> requestId]]
    ELSE [error |-> [code |-> code, message |-> message, details |-> details,
                     timestamp |-> "now", requestId |-> requestId]]

GenericMessage == <<"An internal server error occurred">>

\* the function given to setErrorHandler: the record it logs, then the reply of the
\* first branch that applies
errorHandlerFn(error, req, nodeEnv) ==
    LET requestId == IF Falsy(req.requestId) THEN "unknown" ELSE req.requestId
        errorContext ==
            [err |-> [name |-> error.name, message |-> error.message,
                      code |-> error.code, statusCode |-> error.statusCode],
             requestId |-> requestId, url |-> req.route, body |-> req.body]
        isDevelopment == nodeEnv = S_development
    IN  [log |-> [by |-> "errorHandler", level |-> "error", data |-> errorContext],
         status |-> IF error.app THEN error.statusCode
                    ELSE IF error.validation THEN 400 ELSE 500,
         body |-> IF error.app
                  THEN StandardBody(error.code, error.message, error.details, requestId)
                  ELSE IF error.validation
                       THEN StandardBody("VALIDATION_ERROR", <<"Validation failed">>,
                                         "validation", requestId)
                       ELSE StandardBody("INTERNAL_SERVER_ERROR",
                                         IF isDevelopment THEN error.message
                                         ELSE GenericMessage,
                                         "undefined", requestId)]

\* request.id of Fastify: the x-correlation-id header (requestIdHeader) or a
\* generated id
FastifyId(req) == IF req.sent = "undefined" THEN "req-1" ELSE req.sent

\* Fastify's error handler, which answers where no setErrorHandler applies: the
\* status is error.statusCode if that is at least 400 and 500 otherwise, the body
\* is the serialized error { statusCode, code, error, message }, and the log record
\* holds the serialized request, reply and error
DefaultErrorHandler(error, req) ==
    LET status == IF error.statusCode >= 400 THEN error.statusCode ELSE 500
    IN  [log |-> [by |-> "fastify", level |-> IF status < 500 THEN "info" ELSE "error",
                  data |-> [reqId |-> FastifyId(req), url |-> req.route,
                            statusCode |-> status, err |-> error.message]],
         status |-> status,
         body |-> IF error.code = "undefined"
                  THEN [statusCode |-> status, error |-> "reason", message |-> error.message]
                  ELSE [statusCode |-> status, code |-> error.code, error |-> "reason",
                        message |-> error.message]]

\* the onRequest hook of the request logger: request.logContext and the record
requestLoggerOnRequest(req) ==
    LET requestId == IF Falsy(req.requestId) THEN "unknown" ELSE req.requestId
        logContext == [requestId |-> requestId, url |-> req.route,
                       authorization |-> IF Falsy(req.authorization) THEN "undefined"
                                         ELSE "[REDACTED]"]
    IN  [req |-> [req EXCEPT !.logContext = <<logContext>>],
         log |-> [by |-> "requestLogger.onRequest", level |-> "info",
                  data |-> [requestId |-> requestId, url |-> req.route]]]

\* the onResponse hook of the request logger: nothing without request.logContext
requestLoggerOnResponse(req) ==
    IF req.logContext = <<>> THEN <<>>
    ELSE <<[by |-> "requestLogger.onResponse",
            level |-> IF req.status >= 500 THEN "error"
                      ELSE IF req.status >= 400 THEN "warn" ELSE "info",
            data |-> [requestId |-> req.logContext[1].requestId,
                      url |-> req.logContext[1].url, statusCode |-> req.status]]>>

\* the onError hook of the request logger
requestLoggerOnError(req, error) ==
    [by |-> "requestLogger.onError", level |-> "error",
     data |-> [requestId |-> IF req.logContext = <<>> THEN "unknown"
                             ELSE req.logContext[1].requestId,
               url |-> req.route, statusCode |-> req.status,
               error |-> [name |-> error.name, message |-> error.message]]]

\* a record as the log keeps it: the request it was written for, as it was then
Written(rec, req) == [by |-> rec.by, level |-> rec.level, data |-> rec.data, req |-> req]

\* the hooks and the error handler each plugin of buildApp installs
LoggerHooks == {"logOnRequest", "logOnResponse", "logOnError"}

ErrorHandlerHooks == {"setErrorHandler"}

\* process.env.NODE_ENV as the error handler reads it
NodeEnvOf(e) == e["NODE_ENV"]

\* the error model follows one request
ErrRequests == {1}

\* the hooks that run for a request: those of the instance its route was declared on
InstanceHooks(req) == ctxHooks[req.ctx]

\* createServer's disableRequestLogging: Fastify writes its own request records
\* only if config.logging.enableRequestLogging
FastifyLogs == cachedConfig # <<>> /\ cachedConfig[1].logging.enableRequestLogging

\* buildApp: loadConfig(), then one server.register per plugin. Every plugin of the
\* framework is a plain async function, so each runs on a child instance of its
\* own that starts with the hooks of the server instance, which has none; the
\* request logger only if config.logging.enableRequestLogging; loadRoutes last, then
\* GET /health on the server instance
RegisterPlugins ==
    /\ pc = "building"
    /\ LET res == loadConfig(cachedConfig, env)
       IN  /\ cachedConfig' = res.cache
           /\ lastLoad' = [threw |-> res.threw, value |-> res.value, readEnv |-> res.readEnv]
           /\ IF res.threw = "none"
              THEN LET config == res.value[1]
                   IN  /\ plugins' =
                            <<(IF config.logging.enableRequestLogging
                               THEN {"requestLogger"} ELSE {})
                              \cup (IF config.swagger.enabled
                                    THEN {"swagger", "swaggerUI"} ELSE {})>>
                       /\ ctxHooks' =
                            [c \in Contexts |->
                               ctxHooks["root"] \cup
                               CASE c = "correlationId" -> HookNames
                                 [] c = "requestLogger" ->
                                       IF config.logging.enableRequestLogging
                                       THEN LoggerHooks ELSE {}
                                 [] c = "errorHandler" -> ErrorHandlerHooks
                                 [] OTHER -> {}]
                       /\ pc' = "serving"
              ELSE /\ UNCHANGED <<plugins, ctxHooks>>
                   /\ pc' = "buildAppThrew"
    /\ UNCHANGED <<loaderVars, cliVars, env, envChanges, loadCalls, requests, uuids,
                   reqLogs>>

\* a request for one of the routes of the application arrives
ErrReceive(r) ==
    /\ pc = "serving" /\ requests[r].st = "none"
    /\ \E rt \in Routes, h \in {"undefined", "c1"}, auth \in {"undefined", "Bearer s1"},
          password \in {"undefined", "p1"} :
          requests' = [requests EXCEPT ![r] =
                          Arrived(rt, RouteContext(rt), h, auth, password)]
    /\ UNCHANGED <<loaderVars, cfgVars, cliVars, reqLogs, pc, ctxHooks, uuids>>

\* a request arrives for a route declared on the instance a plugin was given
ErrReceiveOn(r) ==
    /\ pc = "serving" /\ requests[r].st = "none"
    /\ \E ctx \in Contexts \ {RouteContext(rt) : rt \in Routes},
          h \in {"undefined", "c1"}, auth \in {"undefined", "Bearer s1"},
          password \in {"undefined", "p1"} :
          requests' = [requests EXCEPT ![r] = Arrived("plugin", ctx, h, auth, password)]
    /\ UNCHANGED <<loaderVars, cfgVars, cliVars, reqLogs, pc, ctxHooks, uuids>>

\* the onRequest phase: Fastify's "incoming request" record, then the onRequest
\* hooks of the instance in the order they were added
ErrOnRequest(r) ==
    /\ pc = "serving" /\ requests[r].st = "received"
    /\ LET req0 == requests[r]
           hooks == InstanceHooks(req0)
           req1 == IF "onRequest" \in hooks
                   THEN correlationIdOnRequest(req0, Uuid(uuids + 1)) ELSE req0
           logged == requestLoggerOnRequest(req1)
           req2 == IF "logOnRequest" \in hooks THEN logged.req ELSE req1
       IN  /\ requests' = [requests EXCEPT ![r] = [req2 EXCEPT !.st = "handling"]]
           /\ uuids' = IF "onRequest" \in hooks /\ Falsy(req0.header)
                       THEN uuids + 1 ELSE uuids
           /\ reqLogs' = reqLogs
                \o (IF FastifyLogs
                    THEN <<Written([by |-> "fastify", level |-> "info",
                                    data |-> [reqId |-> FastifyId(req0),
                                              url |-> req0.route]], req0)>>
                    ELSE <<>>)
                \o (IF "logOnRequest" \in hooks THEN <<Written(logged.log, req1)>>
                    ELSE <<>>)
    /\ UNCHANGED <<loaderVars, cfgVars, cliVars, pc, ctxHooks>>

\* the route handler: it returns, or it throws (the handler of /health only returns)
ErrHandle(r) ==
    /\ pc = "serving" /\ requests[r].st = "handling"
    /\ \/ requests' = [requests EXCEPT ![r] =
                          [@ EXCEPT !.st = "replied", !.status = 200, !.replies = 1,
                                    !.resBody = [status |-> "healthy"],
                                    !.handledBy = "handler"]]
       \/ /\ requests[r].route # "health"
          /\ \E e \in Thrown({"m1"}) :
                requests' = [requests EXCEPT ![r] =
                                [@ EXCEPT !.st = "errored", !.threw = TRUE, !.error = e]]
    /\ UNCHANGED <<loaderVars, cfgVars, cliVars, reqLogs, pc, ctxHooks, uuids>>

\* the reply to a request whose handler threw: the function given to
\* setErrorHandler where the instance has one, Fastify's error handler elsewhere
Answer(error, req) ==
    IF "setErrorHandler" \in InstanceHooks(req)
    THEN errorHandlerFn(error, req, NodeEnvOf(env))
    ELSE DefaultErrorHandler(error, req)

\* the error of request r is handled. The function given to setErrorHandler sends
\* a plain object, after which Fastify runs no onError hook; Fastify's own handler
\* sends the error, and the onError hooks of the instance run before the reply
ErrHandleError(r) ==
    /\ pc = "serving" /\ requests[r].st = "errored"
    /\ LET req == requests[r]
           custom == "setErrorHandler" \in InstanceHooks(req)
           res == Answer(req.error, req)
           replied == [req EXCEPT !.st = "replied", !.status = res.status,
                                  !.resBody = res.body, !.replies = @ + 1,
                                  !.handledBy = IF custom THEN "errorHandler"
                                                ELSE "fastify"]
       IN  /\ requests' = [requests EXCEPT ![r] = replied]
           /\ reqLogs' = reqLogs
                \o (IF custom \/ FastifyLogs THEN <<Written(res.log, req)>> ELSE <<>>)
                \o (IF ~custom /\ "logOnError" \in InstanceHooks(req)
                    THEN <<Written(requestLoggerOnError(replied, req.error), replied)>>
                    ELSE <<>>)
    /\ UNCHANGED <<loaderVars, cfgVars, cliVars, pc, ctxHooks, uuids>>

\* the reply is sent: the onSend hook of the correlation plugin, then the onResponse
\* hook of the request logger and Fastify's "request completed" record
ErrSend(r) ==
    /\ pc = "serving" /\ requests[r].st = "replied"
    /\ LET req == requests[r]
           hooks == InstanceHooks(req)
           sent == [req EXCEPT !.st = "sent",
                               !.resHeader = IF "onSend" \in hooks THEN req.requestId
                                             ELSE @]
       IN  /\ requests' = [requests EXCEPT ![r] = sent]
           /\ reqLogs' = reqLogs
                \o (IF "logOnResponse" \in hooks
                    THEN [i \in 1..Len(requestLoggerOnResponse(sent)) |->
                             Written(requestLoggerOnResponse(sent)[i], sent)]
                    ELSE <<>>)
                \o (IF FastifyLogs
                    THEN <<Written([by |-> "fastify", level |-> "info",
                                    data |-> [reqId |-> FastifyId(req),
                                              statusCode |-> req.status]], sent)>>
                    ELSE <<>>)
    /\ UNCHANGED <<loaderVars, cfgVars, cliVars, pc, ctxHooks, uuids>>

\* the environment the server is started in: NODE_ENV and LOG_ENABLE_REQUEST vary
ErrEnvs ==
    {[[v \in EnvVars |-> Unset] EXCEPT !["NODE_ENV"] = n, !["LOG_ENABLE_REQUEST"] = l] :
        n \in {Unset, S_development, S_production}, l \in {Unset, <<>>}}

InitErrors ==
    /\ fs = [root |-> FALSE, present |-> {}, beh |-> [n \in NodeIds |-> "ok"]]
    /\ cfg = [valid |-> TRUE, basePath |-> S_api, version |-> S_v1]
    /\ pc = "building"
    /\ stack = <<>>
    /\ registry = {}
    /\ regCalls = <<>>
    /\ logs = <<>>
    /\ orders = NoOrders
    /\ walkResult = "pending"
    /\ listenCalled = FALSE
    /\ exitCode = -1
    /\ run = 1
    /\ prevRegs = <<>>
    /\ prevOrders = NoOrders
    /\ tpath = <<>>
    /\ tresult = <<>>
    /\ NoTraffic
    /\ env \in ErrEnvs
    /\ cachedConfig = <<>>
    /\ lastLoad = NoLoad
    /\ loadCalls = 0
    /\ envChanges = 0
    /\ plugins = <<>>
    /\ NoCli

\* the application as buildApp wires it
NextErrors ==
    \/ RegisterPlugins
    \/ \E r \in ErrRequests : ErrReceive(r)
    \/ \E r \in ErrRequests : ErrOnRequest(r)
    \/ \E r \in ErrRequests : ErrHandle(r)
    \/ \E r \in ErrRequests : ErrHandleError(r)
    \/ \E r \in ErrRequests : ErrSend(r)

SpecErrors == InitErrors /\ [][NextErrors]_vars

\* the same, with a route on every instance buildApp creates
NextInstances ==
    \/ NextErrors
    \/ \E r \in ErrRequests : ErrReceiveOn(r)

SpecInstances == InitErrors /\ [][NextInstances]_vars

----------------------------------------------------------------------------
(* Properties of the discovery pass *)

WalkDone == walkResult # "pending"

FailureLogs == {i \in 1..Len(logs) : logs[i].level \in {"warn", "error"}}

\* position of entry n in what readdir returned for its directory, 0 if not listed
PosIn(seq, n) == IF \E i \in 1..Len(seq) : seq[i] = n
                 THEN CHOOSE i \in 1..Len(seq) : seq[i] = n ELSE 0

\* the walk of this run got to entry n: its directory was walked and read, and no
\* entry listed before n in it (nor n itself) failed stat
RECURSIVE Walked(_)
Walked(n) ==
    IF n = Root THEN fs.root
    ELSE LET d == Node(n).parent
         IN  /\ Walked(d)
             /\ ~ReaddirFails(d)
             /\ PosIn(orders[d], n) > 0
             /\ \A m \in Children(d) :
                   fs.beh[m] = "statFails" => PosIn(orders[d], n) < PosIn(orders[d], m)

\* candidate files: regular files with extension .ts or .js that the walk got to
Candidates ==
    {n \in fs.present \cap FileIds :
        IsCandidateName(Node(n).name) /\ fs.beh[n] # "special" /\ Walked(n)}

ValidModule(f) == fs.beh[f] \in {"ok", "pluginPost"}

\* the routes file f declares, under the prefix the loader mounts it at
RoutesOf(f) ==
    LET prefix == buildRoutePrefix(InstancePrefix(cfg),
                                   determineRoutePath(FullPath(f), BasePath(Node(f).parent)))
        hs == Handlers(fs.beh[f])
    IN  {[method |-> hs[i].method, url |-> RouteUrl(prefix, hs[i].path)] : i \in 1..Len(hs)}

OwnsRoutes(f) ==
    \A k \in RoutesOf(f) : [method |-> k.method, url |-> k.url, file |-> f] \in registry

TakenByOther(f) ==
    \E k \in RoutesOf(f) : \E r \in registry :
        r.method = k.method /\ r.url = k.url /\ r.file # f

FsHealthy ==
    fs.root /\ \A n \in fs.present : fs.beh[n] \notin {"statFails", "readdirFails"}

AllCandidates ==
    {n \in fs.present \cap FileIds : IsCandidateName(Node(n).name) /\ fs.beh[n] # "special"}

InvalidExport(f) == fs.beh[f] \in {"noDefault", "notFunction"}

\* N >= 1 candidates on a healthy file system, exactly one with an invalid default
\* export, the others valid plugins with pairwise distinct routes
C2_Scenario ==
    /\ FsHealthy
    /\ Cardinality({f \in AllCandidates : InvalidExport(f)}) = 1
    /\ \A f \in AllCandidates : InvalidExport(f) \/ ValidModule(f)
    /\ \A f, g \in AllCandidates : f # g => RoutesOf(f) \cap RoutesOf(g) = {}

\* C2: with N candidate files of which exactly one has an invalid default export and
\* the other N-1 load and register without error, the pass finishes without throwing,
\* exactly N-1 files are registered, and exactly one failure diagnostic is written,
\* for the invalid file.
C2_OneInvalidExport ==
    (C2_Scenario /\ WalkDone) =>
        /\ walkResult = "resolved"
        /\ Len(regCalls) = Cardinality(AllCandidates) - 1
        /\ {regCalls[i].file : i \in 1..Len(regCalls)} = {f \in AllCandidates : Loaded(f)}
        /\ Cardinality({f \in AllCandidates : Loaded(f)}) = Cardinality(AllCandidates) - 1
        /\ Cardinality(FailureLogs) = 1
        /\ \A i \in FailureLogs : InvalidExport(logs[i].node) /\ logs[i].msg = "invalidExport"

\* three candidates, one invalid, two registered
C2_Witness ==
    /\ C2_Scenario /\ WalkDone
    /\ Cardinality(AllCandidates) = 3
    /\ Len(regCalls) = 2

\* C3 (as claimed): when the routes directory does not exist, discovery raises a
\* fatal condition to its caller and performs zero registrations.
C3_MissingRootIsFatal ==
    (~fs.root /\ WalkDone) => (walkResult = "rejected" /\ regCalls = <<>>)

DuplicateLogs == {i \in 1..Len(logs) : logs[i].err = "duplicate"}

----------------------------------------------------------------------------
(* Properties of determineRoutePath *)

\* a segment wrapped in one matching bracket pair around a non-empty name
IsSinglePair(seg) ==
    /\ Len(seg) >= 3
    /\ seg[1] = "[" /\ seg[Len(seg)] = "]"
    /\ \A i \in 2..(Len(seg) - 1) : seg[i] \notin {"[", "]"}

\* the Path Transformer of the specification, per segment
SpecSegment(seg) ==
    IF seg = S_index THEN <<>>
    ELSE IF IsSinglePair(seg) THEN <<":">> \o SubSeq(seg, 2, Len(seg) - 1)
    ELSE seg

SpecTransform(segs) ==
    <<SLASH>> \o JoinWith(SelectSeq([i \in 1..Len(segs) |-> SpecSegment(segs[i])], NonEmpty),
                          SLASH)

S_empty == <<"[", "]">>

HasEmptyBrackets(segs) == \E i \in 1..Len(segs) : segs[i] = S_empty

\* the test input lies below a directory routes/v<digits>
UnderVersionDir(t) == RoutesMatchEnds(t.dir \o <<SLASH>>) # {}

\* C5 (as claimed): for every path below a version directory, determineRoutePath
\* drops the extension, elides every `index` segment, turns a segment wrapped in a
\* single matching bracket pair `[name]` into `:name`, keeps every other segment
\* (such as `[a][b]`, `[a`, `a]`) literally, and joins the rest after a leading `/`.
C5_AgreesWithTransformer ==
    (pc = "transformed" /\ UnderVersionDir(tpath) /\ ~HasEmptyBrackets(tpath.segs)) =>
        tresult = SpecTransform(tpath.segs)

HasBlankParam(url) ==
    LET segs == Split(url, SLASH) IN \E i \in 1..Len(segs) : segs[i] = <<":">>

\* C6 (as claimed): a path with a `[]` segment is rejected by the transformer: no
\* pattern with a bare `:` segment is ever produced or handed to fastify.register.
C6_BlankParamRejected ==
    \A i \in 1..Len(regCalls) : ~HasBlankParam(regCalls[i].prefix)

RECURSIVE TopAncestor(_)
TopAncestor(n) == IF Node(n).parent = Root THEN n ELSE TopAncestor(Node(n).parent)

\* the path a registered file is mounted at
MountPath(c) == buildRoutePrefix(InstancePrefix(cfg), c.prefix)

\* C7 (as claimed): the mount path of every registered file is the API base path,
\* then the name of the version directory that encloses the file, then the file's
\* urlPattern.
C7_MountUnderVersionDir ==
    \A i \in 1..Len(regCalls) :
        MountPath(regCalls[i]) =
            cfg.basePath \o <<SLASH>> \o Node(TopAncestor(regCalls[i].file)).name
                \o regCalls[i].prefix

----------------------------------------------------------------------------
(* Order of the walk *)

\* byte-wise lexical order of two names
LexLess(a, b) ==
    \E k \in 1..(Len(a) + 1) :
        /\ \A i \in 1..(k - 1) : i <= Len(b) /\ a[i] = b[i]
        /\ \/ k = Len(a) + 1 /\ Len(b) >= k
           \/ k <= Len(a) /\ k <= Len(b) /\ CharCode(a[k]) < CharCode(b[k])

SortedEntries(d) ==
    CHOOSE p \in Perms(Children(d)) :
        \A i, j \in 1..Len(p) : i < j => LexLess(Node(p[i]).name, Node(p[j]).name)

LexOrders == [d \in DirIds \cup {Root} |-> SortedEntries(d)]

IsDirectory(n) == n = Root \/ Node(n).dir

\* the files below n, depth-first, each directory in the order ord gives for it
RECURSIVE Dfs(_, _)
RECURSIVE DfsList(_, _)
Dfs(ord, n) == IF IsDirectory(n) THEN DfsList(ord, ord[n]) ELSE <<n>>
DfsList(ord, seq) ==
    IF seq = <<>> THEN <<>> ELSE Dfs(ord, Head(seq)) \o DfsList(ord, Tail(seq))

CalledFiles == [i \in 1..Len(regCalls) |-> regCalls[i].file]

WasCalled(f) == \E i \in 1..Len(regCalls) : regCalls[i].file = f

\* C8 (as claimed): the sequence of fastify.register calls is the lexical
\* depth-first order of the candidate files, whatever order readdir returns.
C8_LexicalOrder == CalledFiles = SelectSeq(Dfs(LexOrders, Root), WasCalled)

\* C8 (amended): the sequence of fastify.register calls is the depth-first order of
\* the files in which each directory is taken in the order readdir returned it.
C8_ReaddirOrder == CalledFiles = SelectSeq(Dfs(orders, Root), WasCalled)

\* two files were registered in an order that is not the lexical one
C8_Witness ==
    /\ WalkDone
    /\ Len(regCalls) >= 2
    /\ CalledFiles # SelectSeq(Dfs(LexOrders, Root), WasCalled)

C10_ListenAfterDiscovery ==
    /\ listenCalled =>
          /\ stack = <<>>
          /\ walkResult = "resolved"
          /\ pc \in {"listening", "exited"}
    /\ (~cfg.valid \/ walkResult = "rejected") =>
          /\ ~listenCalled
          /\ pc \in {"start", "walking", "exited"}
    /\ pc = "exited" => exitCode = 1
    /\ pc # "exited" => exitCode = -1

\* the server listens after a pass that registered files
C10_Witness == listenCalled /\ pc = "listening" /\ Len(regCalls) >= 1

----------------------------------------------------------------------------
(* Termination of the discovery pass *)

\* start() on the event loop: every await in the model settles, so a step that can be
\* taken is eventually taken
SpecLive == Init /\ [][Next]_vars /\ WF_vars(Next)

\* the diagnostics that report the outcome of a file
OutcomeMsgs == {"loaded", "loadFailed", "invalidExport"}

OutcomeLogs(f) == {i \in 1..Len(logs) : logs[i].node = f /\ logs[i].msg \in OutcomeMsgs}

Processed(f) == OutcomeLogs(f) # {}

\* entry n exists below the routes directory and every directory above it can be read
RECURSIVE Enumerable(_)
Enumerable(n) ==
    IF n = Root THEN fs.root
    ELSE /\ n \in fs.present
         /\ Node(n).parent # Root => fs.beh[Node(n).parent] = "ok"
         /\ Enumerable(Node(n).parent)

\* the candidate files of the tree: regular .ts / .js files in readable directories
TreeCandidates ==
    {n \in fs.present \cap FileIds :
        /\ extname(Node(n).name) \in {S_ts, S_js}
        /\ fs.beh[n] \notin {"special", "statFails"}
        /\ Enumerable(n)}

\* C11 (as claimed): on every tree with a readable root the discovery pass eventually
\* completes and never aborts, whatever per-file failures occur, and when it is
\* complete every candidate file of the tree has been processed.
C11_CompletesWithAllProcessed ==
    /\ (fs.root /\ cfg.valid) ~> (walkResult = "resolved")
    /\ [](walkResult # "rejected")
    /\ [](walkResult = "resolved" => \A f \in TreeCandidates : Processed(f))

\* the part of C11 that holds: the pass completes and never aborts
C11_Terminates ==
    /\ (fs.root /\ cfg.valid) ~> (walkResult = "resolved")
    /\ [](walkResult # "rejected")

----------------------------------------------------------------------------
(* One candidate at a time *)

IsOutcome(l) == l.msg \in OutcomeMsgs

\* the files whose outcome has been reported, in the order of the reports
OutcomeFiles ==
    LET s == SelectSeq(logs, IsOutcome) IN [i \in 1..Len(s) |-> s[i].node]

\* files handed to fastify.register whose registration has not settled
InFlight == {f \in FileIds : WasCalled(f) /\ ~Processed(f)}

\* C12: candidates are processed one at a time in walk order: while the import or the
\* registration of a candidate is pending no other call of the walker runs, every
\* candidate imported earlier has its outcome (registered, or caught as a failure),
\* and the outcomes, hence the registrations, follow the depth-first walk order.
C12_OneAtATime ==
    /\ \A i \in 1..(Len(stack) - 1) : stack[i].st = "call"
    /\ InFlight \subseteq
          (IF stack # <<>> /\ Top.st = "register" THEN {EntryAt(Top)} ELSE {})
    /\ OutcomeFiles = SelectSeq(Dfs(orders, Root), Processed)
    /\ SelectSeq(OutcomeFiles, Loaded) = [i \in 1..Len(Registrations) |-> Registrations[i].file]
    /\ \A i \in 1..Len(regCalls) :
          \A j \in 1..(i - 1) : Processed(regCalls[j].file)

\* a registration is suspended after an earlier candidate failed and another was bound
C12_Witness ==
    /\ stack # <<>> /\ Top.st = "register"
    /\ Len(regCalls) >= 2
    /\ \E f, g \in FileIds :
          /\ Loaded(f)
          /\ \E i \in OutcomeLogs(g) : logs[i].msg # "loaded"

----------------------------------------------------------------------------
(* The dispatch table *)

UniqueKeys ==
    \A r1, r2 \in registry : (r1.method = r2.method /\ r1.url = r2.url) => r1 = r2

PassOver == pc \in {"routesLoaded", "built", "listening", "exited"}

HealthRoute == [method |-> "GET", url |-> S_health, file |-> Root]

----------------------------------------------------------------------------
(* Diagnostics *)

\* level and content of an outcome record agree with what happened to its file
WellFormedOutcome(l) ==
    CASE l.msg = "loaded" ->
            l.level = "info" /\ l.err = "none" /\ WasCalled(l.node) /\ ValidModule(l.node)
      [] l.msg = "invalidExport" ->
            l.level = "warn" /\ InvalidExport(l.node) /\ ~WasCalled(l.node)
      [] l.msg = "loadFailed" ->
            l.level = "error" /\ l.err \in {"import", "plugin", "duplicate"}
      [] OTHER -> FALSE

\* C15: every candidate file the walk reached (a regular .ts / .js file) yields exactly
\* one diagnostic record once it is processed: info for a registered file (its route
\* pattern is the prefix of its register call), warn for an invalid export, error for
\* a thrown import or registration error; no file yields two records, and no record
\* names a file that is not a candidate.
C15_OneDiagnostic ==
    LET reached == Candidates
    IN  /\ \A f \in FileIds : Cardinality(OutcomeLogs(f)) <= 1
        /\ \A i \in 1..Len(logs) :
              /\ logs[i].node \in FileIds => logs[i].msg \in OutcomeMsgs
              /\ logs[i].msg \in OutcomeMsgs =>
                    logs[i].node \in reached /\ WellFormedOutcome(logs[i])
        /\ WalkDone => \A f \in reached : Cardinality(OutcomeLogs(f)) = 1

\* a finished walk with a success record and a failure record for different files
C15_Witness ==
    /\ WalkDone
    /\ Cardinality(Candidates) >= 3
    /\ \E i, j \in 1..Len(logs) :
          /\ logs[i].msg = "loaded"
          /\ logs[j].msg \in {"invalidExport", "loadFailed"}

----------------------------------------------------------------------------
(* Entries that are not candidates *)

\* an entry stat can examine that is neither a directory nor a regular .ts / .js file
Skipped(n) ==
    /\ n \in fs.present /\ ~Node(n).dir /\ fs.beh[n] # "statFails"
    /\ fs.beh[n] = "special" \/ extname(Node(n).name) \notin {S_ts, S_js}

\* C16: only regular files with extension .ts or .js are imported; any other entry
\* (another extension, neither file nor directory) is never imported, registered or
\* named in a log record, and the candidates the walk reaches in the same run are
\* all processed.
C16_OthersSkipped ==
    LET regular == TreeCandidates
    IN  /\ (stack # <<>> /\ Top.st \in {"import", "register"}) => EntryAt(Top) \in regular
        /\ \A i \in 1..Len(regCalls) : regCalls[i].file \in regular
        /\ \A i \in 1..Len(logs) : ~Skipped(logs[i].node)
        /\ \A r \in registry : r.file = Root \/ r.file \in regular
        /\ WalkDone => \A f \in regular : Walked(f) => Processed(f)

\* an entry was skipped and a sibling enumerated after it was registered
C16_Witness ==
    /\ WalkDone
    /\ \E n \in fs.present : \E f \in TreeCandidates :
          /\ Skipped(n) /\ Walked(n)
          /\ Node(f).parent = Node(n).parent
          /\ PosIn(orders[Node(n).parent], n) < PosIn(orders[Node(n).parent], f)
          /\ Loaded(f)

----------------------------------------------------------------------------
(* Subdirectories that cannot be read *)

\* entry n lies somewhere below directory d
RECURSIVE Below(_, _)
Below(n, d) ==
    IF n = Root THEN FALSE
    ELSE Node(n).parent = d \/ Below(Node(n).parent, d)

ReaddirReports(d) ==
    {i \in 1..Len(logs) : logs[i].node = d /\ logs[i].msg = "dirError" /\ logs[i].err = "readdir"}

\* C17: a subdirectory whose readdir fails is reported once at error level and
\* contributes nothing (no entry below it is imported, registered or reported); the
\* walk goes on with the entries listed after it in its parent, so that every
\* candidate the walk reaches is processed, and discovery does not abort.
C17_UnreadableSubdirSkipped ==
    /\ walkResult # "rejected"
    /\ \A d \in fs.present \cap DirIds :
          fs.beh[d] = "readdirFails" =>
             /\ Cardinality(ReaddirReports(d)) <= 1
             /\ \A i \in ReaddirReports(d) : logs[i].level = "error"
             /\ (WalkDone /\ Walked(d)) => Cardinality(ReaddirReports(d)) = 1
             /\ orders[d] = <<>>
             /\ \A i \in 1..Len(regCalls) : ~Below(regCalls[i].file, d)
             /\ \A i \in 1..Len(logs) : ~Below(logs[i].node, d)
             /\ \A r \in registry : r.file = Root \/ ~Below(r.file, d)
             /\ WalkDone =>
                   \A f \in TreeCandidates : Walked(f) => Processed(f)

\* an unreadable subdirectory was reported and a file listed after it was registered
C17_Witness ==
    /\ WalkDone
    /\ \E d \in fs.present \cap DirIds : \E f \in TreeCandidates :
          /\ fs.beh[d] = "readdirFails" /\ ReaddirReports(d) # {}
          /\ Children(d) # {}
          /\ Node(f).parent = Node(d).parent
          /\ PosIn(orders[Node(d).parent], d) < PosIn(orders[Node(d).parent], f)
          /\ Loaded(f)

----------------------------------------------------------------------------
(* The shape of the patterns determineRoutePath returns *)

\* the segments of a pattern that starts with `/`
UrlSegments(url) == Tail(Split(url, SLASH))

IsParam(seg) == seg # <<>> /\ seg[1] = ":"

\* the names of the `:name` segments of a pattern, left to right
UrlParams(url) ==
    LET p == SelectSeq(UrlSegments(url), IsParam) IN [i \in 1..Len(p) |-> Tail(p[i])]

\* the names of the bracket-delimited segments `[name]` of a path, left to right
SourceParams(segs) ==
    LET b == SelectSeq(segs, IsSinglePair)
    IN  [i \in 1..Len(b) |-> SubSeq(b[i], 2, Len(b[i]) - 1)]

StartsWithSlash == tresult # <<>> /\ tresult[1] = SLASH

NoIndexSegment ==
    \A i \in 1..Len(UrlSegments(tresult)) : UrlSegments(tresult)[i] # S_index

\* C18 (as claimed): for every file path, below a routes/v<digits>/ directory or not,
\* the returned pattern starts with `/`, has no segment equal to `index`, and its
\* `:name` segments are, in order, the names of the bracket-delimited segments of
\* the path.
C18_PatternShape ==
    pc = "transformed" =>
        /\ StartsWithSlash
        /\ NoIndexSegment
        /\ UrlParams(tresult) = SourceParams(tpath.segs)

\* the parts of C18 that hold for every path
C18_SlashAndNoIndex == pc = "transformed" => StartsWithSlash /\ NoIndexSegment

----------------------------------------------------------------------------
(* Files reported as failed *)

ReportedFailed(f) ==
    \E i \in OutcomeLogs(f) : logs[i].msg \in {"loadFailed", "invalidExport"}

\* C19 (as claimed): a candidate file that is reported as failed contributes no entry
\* to the dispatch table; a plugin that binds handlers and then throws leaves none of
\* them bound once its failure has been reported.
C19_FailedBindsNothing ==
    \A f \in FileIds : ReportedFailed(f) => \A r \in registry : r.file # f

----------------------------------------------------------------------------
(* Correlation ids *)

Generated(id) == \E n \in 1..uuids : id = Uuid(n)

\* C20 (as claimed): every request gets a correlation id: the value of a non-empty
\* x-correlation-id header, otherwise a newly generated UUID; the x-correlation-id
\* header of the response equals request.requestId of the same request, and two
\* requests in flight together never get each other's generated id.
C20_CorrelationId ==
    \A r \in 1..MaxRequests :
        requests[r].st = "sent" =>
            /\ ~Falsy(requests[r].sent) => requests[r].requestId = requests[r].sent
            /\ Falsy(requests[r].sent) => Generated(requests[r].requestId)
            /\ requests[r].resHeader = requests[r].requestId
            /\ requests[r].resHeader # "undefined"
            /\ \A q \in 1..MaxRequests :
                  (q # r /\ Falsy(requests[r].sent) /\ requests[q].st # "none") =>
                      requests[q].requestId # requests[r].requestId

----------------------------------------------------------------------------
(* loadRoutesFromDirectory never rejects *)

LogsWith(msg) == {i \in 1..Len(logs) : logs[i].msg = msg}

\* loadRoutes has settled and buildApp went on, or the process ended after it
AfterLoadRoutes ==
    \/ pc \in {"routesLoaded", "built", "listening"}
    \/ pc = "exited" /\ cfg.valid

\* C27: loadRoutesFromDirectory never rejects: the errors of readdir, stat, import
\* and fastify.register are caught and logged, at the root call and in recursive
\* calls; the catch of loadRoutes is never entered, and loadRoutes always logs
\* 'All routes loaded successfully' and resolves, even with zero registered files.
C27_NeverRejects ==
    /\ walkResult # "rejected"
    /\ LogsWith("failedToLoadRoutes") = {}
    /\ \A i \in 1..Len(logs) :
          /\ logs[i].err \in {"readdir", "stat"} =>
                logs[i].msg = "dirError" /\ logs[i].level = "error"
          /\ logs[i].err \in {"import", "plugin", "duplicate"} =>
                logs[i].msg = "loadFailed" /\ logs[i].level = "error"
    /\ (WalkDone /\ ~fs.root) =>
          \E i \in LogsWith("dirError") : logs[i].node = Root /\ logs[i].err = "readdir"
    /\ WalkDone =>
          \A f \in Candidates :
              fs.beh[f] \in {"importThrows", "pluginThrows", "bindThenThrows"} =>
                  \E i \in LogsWith("loadFailed") : logs[i].node = f
    /\ AfterLoadRoutes =>
          /\ walkResult = "resolved"
          /\ Cardinality(LogsWith("allLoaded")) = 1
    /\ pc = "exited" => (~cfg.valid \/ listenCalled)

\* the routes directory is missing, nothing was registered, and loadRoutes has
\* logged its success and buildApp has returned
C27_Witness ==
    /\ pc = "built" /\ ~fs.root
    /\ regCalls = <<>>
    /\ LogsWith("allLoaded") # {}
    /\ LogsWith("dirError") # {}

----------------------------------------------------------------------------
(* A failure of stat *)

StatReports(d) ==
    {i \in 1..Len(logs) : logs[i].node = d /\ logs[i].msg = "dirError" /\ logs[i].err = "stat"}

\* the entries of directory d whose stat rejects, and the first of them in the order
\* readdir returned
StatFailing(d) == {m \in Children(d) : fs.beh[m] = "statFails" /\ PosIn(orders[d], m) > 0}

FirstStatFailing(d) ==
    CHOOSE m \in StatFailing(d) :
        \A k \in StatFailing(d) : PosIn(orders[d], m) <= PosIn(orders[d], k)

\* entry n or an entry below it
AtOrBelow(n, e) == n = e \/ Below(n, e)

\* nothing of entry e or below it was imported, registered, bound or reported
Untouched(e) ==
    /\ \A i \in 1..Len(regCalls) : ~AtOrBelow(regCalls[i].file, e)
    /\ \A i \in 1..Len(logs) : ~AtOrBelow(logs[i].node, e)
    /\ \A r \in registry : r.file = Root \/ ~AtOrBelow(r.file, e)
    /\ Node(e).dir => orders[e] = <<>>

\* C28: when stat fails on an entry of a directory, the processing of that directory
\* ends: no entry listed after the failing one is loaded or registered, one
\* directory-level error is logged, what was processed before stays registered, and
\* the walk goes on with the next sibling of the directory in its parent (every
\* later entry of the parent is walked up to an entry of the parent whose own stat
\* fails).
C28_StatEndsDirectory ==
    \A d \in (fs.present \cap DirIds) \cup {Root} :
        LET reports == StatReports(d)
        IN  /\ Cardinality(reports) <= 1
            /\ reports # {} => StatFailing(d) # {}
            /\ (WalkDone /\ Walked(d) /\ StatFailing(d) # {}) => reports # {}
            /\ reports # {} =>
                  LET m == FirstStatFailing(d)
                      at == CHOOSE i \in reports : TRUE
                  IN  /\ logs[at].level = "error"
                      /\ \A e \in Children(d) :
                            PosIn(orders[d], e) >= PosIn(orders[d], m) => Untouched(e)
                      /\ \A f \in Children(d) \cap FileIds :
                            (/\ PosIn(orders[d], f) < PosIn(orders[d], m)
                             /\ IsCandidateName(Node(f).name) /\ fs.beh[f] # "special") =>
                               /\ \E i \in OutcomeLogs(f) : i < at
                               /\ ValidModule(f) =>
                                     (Loaded(f) /\ OwnsRoutes(f)) \/ TakenByOther(f)
                      /\ walkResult # "rejected"
                      /\ (WalkDone /\ d # Root) =>
                            \A s \in Children(Node(d).parent) :
                                LET p == Node(d).parent
                                IN  (/\ PosIn(orders[p], s) > PosIn(orders[p], d)
                                     /\ \A k \in StatFailing(p) :
                                           PosIn(orders[p], k) > PosIn(orders[p], s)) =>
                                       /\ Node(s).dir /\ fs.beh[s] = "ok" =>
                                             Len(orders[s]) = Cardinality(Children(s))
                                       /\ s \in TreeCandidates => Processed(s)

\* stat failed in a directory after one of its files was registered and before
\* another entry of it, and a file of the next sibling directory was processed
C28_Witness ==
    /\ WalkDone
    /\ \E d \in fs.present \cap DirIds :
          /\ StatReports(d) # {}
          /\ \E f, e \in Children(d) :
                /\ PosIn(orders[d], f) < PosIn(orders[d], FirstStatFailing(d))
                /\ Loaded(f) /\ OwnsRoutes(f)
                /\ PosIn(orders[d], e) > PosIn(orders[d], FirstStatFailing(d))
          /\ \E s \in Children(Node(d).parent) : \E g \in Children(s) :
                /\ PosIn(orders[Node(d).parent], s) > PosIn(orders[Node(d).parent], d)
                /\ Processed(g)

----------------------------------------------------------------------------
(* The prefix determineRoutePath removes *)

\* a directory name of the form v<digits>
IsVersionName(seg) ==
    Len(seg) >= 2 /\ seg[1] = "v" /\ \A i \in 2..Len(seg) : seg[i] \in Digits

\* positions k of the segments of an absolute path where a directory `routes` is
\* followed by a directory v<digits>
VersionDirsAt(segs) ==
    {k \in 2..(Len(segs) - 2) : segs[k] = S_routes /\ IsVersionName(segs[k + 1])}

\* the route path built from path segments of which the last carries the extension
RouteOfSegments(segs) ==
    LET named == [i \in 1..Len(segs) |->
                     IF i = Len(segs) THEN StripExtension(segs[i]) ELSE segs[i]]
    IN  <<SLASH>> \o JoinWith(SelectSeq(MapSegments(named), NonEmpty), SLASH)

\* the same file of the same project, with the project at location c
Relocated(t, c) == [t EXCEPT !.cwd = c, !.dir = DirAt(c, t.sub)]

PlainLocations == {c \in Locations : VersionDirsAt(Split(c \o <<SLASH, "f">>, SLASH)) = {}}

\* C29: determineRoutePath removes the path up to and including the last
\* `/routes/v<digits>/` of the absolute file path; when the path has none (a file
\* directly under routes/, or under a directory such as routes/beta/) nothing is
\* removed, the route path is built from the entire absolute path, and so differs
\* between two locations of the project.
C29_LastVersionDir ==
    pc = "transformed" =>
        LET segs == Split(TestFilePath(tpath), SLASH)
            occ == VersionDirsAt(segs)
        IN  IF occ = {}
            THEN /\ tresult = RouteOfSegments(segs)
                 /\ \A c \in PlainLocations \ {tpath.cwd} :
                       determineRoutePath(TestFilePath(Relocated(tpath, c)), <<>>) # tresult
            ELSE LET last == CHOOSE k \in occ : \A j \in occ : j <= k
                 IN  /\ tresult = RouteOfSegments(SubSeq(segs, last + 2, Len(segs)))
                     /\ last >= Len(Split(tpath.cwd, SLASH)) =>
                           \A c \in Locations :
                               determineRoutePath(TestFilePath(Relocated(tpath, c)), <<>>)
                                  = tresult

\* a path with two version directories was transformed, and cutting at the first
\* would have given another route path
C29_Witness ==
    /\ pc = "transformed"
    /\ LET segs == Split(TestFilePath(tpath), SLASH)
           occ == VersionDirsAt(segs)
       IN  /\ Cardinality(occ) >= 2
           /\ \E k \in occ : tresult # RouteOfSegments(SubSeq(segs, k + 2, Len(segs)))

\* a file below routes/beta was transformed and its route path starts with the
\* location of the project
C29_NoVersionDir ==
    /\ pc = "transformed"
    /\ tpath.sub = <<SLASH>> \o S_beta
    /\ VersionDirsAt(Split(TestFilePath(tpath), SLASH)) = {}
    /\ StartsWith(tresult, tpath.cwd \o <<SLASH>> \o S_src \o <<SLASH>> \o S_routes)

----------------------------------------------------------------------------
(* The configuration cache *)

\* a configuration value that satisfies the schema
ValidConfig(c) ==
    /\ c.port \in 1..65535
    /\ c.nodeEnv \in NodeEnvs
    /\ c.logging.level \in LogLevels
    /\ c.swagger.enabled \in BOOLEAN
    /\ c.logging.enableRequestLogging \in BOOLEAN
    /\ c.cors.credentials \in BOOLEAN
    /\ c.database.url = Unset \/ IsUrl(c.database.url)

CacheValid == cachedConfig = <<>> \/ ValidConfig(cachedConfig[1])

LoadConfigCalled == loadCalls' = loadCalls + 1

C23_Rejected ==
    /\ lastLoad.threw = "Invalid configuration" /\ cachedConfig = <<>>
    /\ env["PORT"] = S_65536

----------------------------------------------------------------------------
(* The documented environment settings *)

\* a call of loadConfig that finds the cache empty and parses the environment
FreshLoad == LoadConfigCalled /\ cachedConfig = <<>>

\* the environment is accepted once variable v is left out
AcceptedWithout(v) == Issues(RawConfig([env EXCEPT ![v] = Unset])) = {}

\* the origins of a comma-separated list
OriginList(s) == Split(s, ",")

\* C24 (as claimed): the documented CORS settings are accepted: with
\* CORS_CREDENTIALS=true loadConfig succeeds and cors.credentials is true; with
\* CORS_ORIGIN=true cors.origin is the boolean true; with a comma-separated
\* CORS_ORIGIN cors.origin is the list of those origins.
C24_CorsSettingsAccepted ==
    [][FreshLoad =>
         /\ (env["CORS_CREDENTIALS"] = S_true /\ AcceptedWithout("CORS_CREDENTIALS")) =>
               /\ lastLoad'.threw = "none"
               /\ lastLoad'.value # <<>> /\ lastLoad'.value[1].cors.credentials = TRUE
         /\ (env["CORS_ORIGIN"] = S_true /\ lastLoad'.threw = "none") =>
               /\ lastLoad'.value[1].cors.origin.kind = "boolean"
               /\ lastLoad'.value[1].cors.origin.val = <<TRUE>>
         /\ (env["CORS_ORIGIN"] = S_twoOrigins /\ lastLoad'.threw = "none") =>
               /\ lastLoad'.value[1].cors.origin.kind = "array"
               /\ lastLoad'.value[1].cors.origin.val = OriginList(S_twoOrigins)]_vars

\* buildApp runs with an empty cache, so its configuration comes from the
\* environment as it is
FreshBuild == pc = "config" /\ pc' = "pluginsRegistered" /\ cachedConfig = <<>>

FlagOff(v) == env[v] = S_false
FlagOn(v) == env[v] \in {S_true, Unset}

\* C25 (as claimed): with LOG_ENABLE_REQUEST=false buildApp does not register the
\* request logger, with SWAGGER_ENABLED=false it registers neither swagger nor
\* swagger-ui; with true or unset the feature is registered.
C25_FlagsSwitchFeatures ==
    [][FreshBuild =>
         /\ FlagOff("LOG_ENABLE_REQUEST") => "requestLogger" \notin plugins'[1]
         /\ FlagOff("SWAGGER_ENABLED") => plugins'[1] \cap {"swagger", "swaggerUI"} = {}
         /\ FlagOn("LOG_ENABLE_REQUEST") => "requestLogger" \in plugins'[1]
         /\ FlagOn("SWAGGER_ENABLED") => {"swagger", "swaggerUI"} \subseteq plugins'[1]]_vars

\* the part of C25 that holds: true or unset registers the feature, and only the
\* empty value switches it off
C25_OnlyEmptySwitchesOff ==
    [][FreshBuild =>
         /\ "requestLogger" \in plugins'[1] <=> env["LOG_ENABLE_REQUEST"] # <<>>
         /\ {"swagger", "swaggerUI"} \subseteq plugins'[1] <=> env["SWAGGER_ENABLED"] # <<>>
         /\ plugins'[1] \cap {"swagger", "swaggerUI"} # {} => env["SWAGGER_ENABLED"] # <<>>
         /\ plugins'[1] \subseteq OptionalPlugins]_vars

----------------------------------------------------------------------------
(* createProject and an existing directory *)

Writes == {i \in 1..Len(fsOps) : fsOps[i].op \in {"mkdir", "writeFile"}}

Removals == {i \in 1..Len(fsOps) : fsOps[i].op = "rm"}

\* C30 (as claimed): when the directory exists and the overwrite is declined,
\* createProject ends with no change on disk; project files are written only when
\* the directory did not exist or the overwrite was confirmed; and the removal of
\* the old directory precedes the first write.
C30_DeclineOrCleanOverwrite ==
    /\ answer = "no" =>
          /\ cliPc = "cancelled"
          /\ fsOps = <<>> /\ target = initialTarget
    /\ Writes # {} => (~initialTarget.exists \/ answer = "yes")
    /\ (Writes # {} /\ initialTarget.exists) =>
          \A w \in Writes : \E r \in Removals : r < w

\* the part of C30 that holds: declining changes nothing, nothing is written while
\* the prompt is open, and fs.rm is called only after a confirmation and before any
\* write
C30_DeclineChangesNothing ==
    /\ answer = "no" =>
          /\ cliPc = "cancelled"
          /\ fsOps = <<>> /\ target = initialTarget
    /\ cliPc \in {"access", "prompt", "rm"} => fsOps = <<>>
    /\ \A i \in 1..Len(fsOps) :
          fsOps[i].op \in {"rm", "rmFailed"} => (i = 1 /\ answer = "yes")

----------------------------------------------------------------------------
(* Properties of error replies and of log records *)

\* request req was answered after its handler threw
AnsweredError(req) == req.st \in {"replied", "sent"} /\ req.threw

\* a body of the shape { error: { code, message, timestamp, requestId } }, with or
\* without details
IsStandard(body) ==
    /\ DOMAIN body = {"error"}
    /\ DOMAIN body.error \in {{"code", "message", "timestamp", "requestId"},
                              {"code", "message", "details", "timestamp", "requestId"}}

\* status and code the error calls for: its own for an AppError, 400 and
\* VALIDATION_ERROR for a validation error of the framework, 500 and
\* INTERNAL_SERVER_ERROR for any other
ExpectedStatus(error) ==
    IF error.app THEN error.statusCode ELSE IF error.validation THEN 400 ELSE 500

ExpectedCode(error) ==
    IF error.app THEN error.code
    ELSE IF error.validation THEN "VALIDATION_ERROR" ELSE "INTERNAL_SERVER_ERROR"

\* the correlation ID of a request: the x-correlation-id header it came with, or
\* the one generated for it
CorrelationOf(req) == IF Falsy(req.sent) THEN req.requestId ELSE req.sent

\* C21: every request whose handler threw is answered exactly once, with a body of
\* the shape { error: { code, message, timestamp, requestId } }, the status and
\* code of the error's class (its own for an AppError, 400 / VALIDATION_ERROR for a
\* validation error of the framework, 500 / INTERNAL_SERVER_ERROR otherwise), and
\* the correlation ID of the request as requestId
C21_StandardErrorShape ==
    \A r \in ErrRequests :
        LET req == requests[r]
        IN  AnsweredError(req) =>
                /\ req.replies = 1
                /\ IsStandard(req.resBody)
                /\ req.status = ExpectedStatus(req.error)
                /\ req.resBody.error.code = ExpectedCode(req.error)
                /\ req.resBody.error.requestId = CorrelationOf(req)

\* the message of a reply body, in either shape
MessageOf(body) ==
    IF "statusCode" \in DOMAIN body THEN body.message ELSE body.error.message

\* C22: the message of a 5xx reply does not depend on the message of the error that
\* was thrown: the reply to the same error with any other message text is a 5xx
\* reply with the same message, whatever NODE_ENV is
C22_NoInternalsIn5xx ==
    \A r \in ErrRequests :
        LET req == requests[r]
        IN  (AnsweredError(req) /\ req.status >= 500) =>
                \A t \in MessageTexts :
                    LET other == Answer(ErrorOf(req.error.kind, t, req.error.details),
                                        req)
                    IN  MessageOf(other.body) = MessageOf(req.resBody)

\* the writers of the request logger and of the error handler
PluginWriters == {"requestLogger.onRequest", "requestLogger.onResponse",
                  "requestLogger.onError", "errorHandler"}

\* the record writer by writes for request req
RecordBy(by, req) ==
    CASE by = "errorHandler" -> errorHandlerFn(req.error, req, NodeEnvOf(env)).log
      [] by = "requestLogger.onRequest" -> requestLoggerOnRequest(req).log
      [] by = "requestLogger.onResponse" -> requestLoggerOnResponse(req)[1]
      [] OTHER -> requestLoggerOnError(req, req.error)

====
